---- MODULE Spec2Model ----
(***************************************************************************)
(* Model of the hyperlight host sandbox (hyperlight_host/src/sandbox/       *)
(* initialized.rs), its port dispatcher handle_outb and the guest-call      *)
(* lifecycle around it.                                                     *)
(***************************************************************************)
EXTENDS Integers, Sequences, FiniteSets, TLC

\* ------------------------------------------------------------------ bounds
\* Longest parameter list a guest puts in a FunctionCall frame.
MaxParams == 1
\* Cap on num_runs (an i32 in the code).
MaxRuns == 1
\* Largest abort code / OUT byte value the guest issues.
MaxByte == 1

\* ------------------------------------------------------- program constants
PortLog == 99
PortCallFunction == 101
PortAbort == 102
\* A port that is none of the three above.
PortOther == 7

\* ------------------------------------------------------------- data model
HostThreads == {"t1", "t2"}
\* The functions a host may register, and a name that is never registered.
HostFunctionNames == {"HostPrint", "HostExit"}
UnknownName == "Nope"
Ports == {PortLog, PortCallFunction, PortAbort, PortOther}
Bytes == 0..MaxByte
\* The cookie stamped at creation, and the value a guest overrun leaves.
CookieStamped == "cookie"
CookieSmashed == "smashed"

ParameterTypes == {"String", "Int"}
ReturnTypes == {"Void", "Int"}

PV(tag, v) == [tag |-> tag, v |-> v]
ParameterValues == {PV("String", 1), PV("Int", 1)}
\* ReturnValue; `code` is the error code a GuestError response carries.
RV(tag, v) == [tag |-> tag, v |-> v, code |-> "NoError"]
GuestErrorValue(code) == [tag |-> "GuestError", v |-> 0, code |-> code]

RECURSIVE SeqsUpTo(_, _)
SeqsUpTo(S, n) ==
    IF n = 0 THEN {<<>>}
    ELSE LET shorter == SeqsUpTo(S, n - 1)
         IN shorter \cup {Append(s, x) : s \in {q \in shorter : Len(q) = n - 1}, x \in S}

\* Option<Vec<ParameterValue>>
NoneParams == [some |-> FALSE, v |-> <<>>]
SomeParams(s) == [some |-> TRUE, v |-> s]
OptParams == {NoneParams} \cup {SomeParams(s) : s \in SeqsUpTo(ParameterValues, MaxParams)}

\* The definitions a host registers: HostPrint(String) -> Int, HostExit() -> Void.
HostFunctionDefinition(name) ==
    IF name = "HostPrint"
    THEN [parameter_types |-> <<"String">>, return_type |-> "Int"]
    ELSE [parameter_types |-> <<>>, return_type |-> "Void"]

EmptyMap == [n \in {} |-> HostFunctionDefinition("HostPrint")]

\* Frames in the shared regions.  Every frame is one record shape; `frame`
\* is the kind of table that the bytes decode as.
Frame(frame, name, params, kind, tag, v) ==
    [frame |-> frame, function_name |-> name, parameters |-> params,
     kind |-> kind, tag |-> tag, v |-> v, code |-> "NoError"]
EmptyFrame == Frame("Empty", "", NoneParams, "", "", 0)
GarbageFrame == Frame("Garbage", "", NoneParams, "", "", 0)
LogFrame == Frame("LogData", "", NoneParams, "", "", 0)
FunctionCallFrame(name, params, kind, rt) ==
    Frame("FunctionCall", name, params, kind, rt, 0)
ReturnValueFrame(rv) ==
    [Frame("ReturnValue", "", NoneParams, "", rv.tag, rv.v) EXCEPT !.code = rv.code]

\* What the guest can leave in shared output before an OUT or a HLT.
GuestOutFrames ==
    {GarbageFrame, LogFrame, ReturnValueFrame(RV("Int", 1)), ReturnValueFrame(RV("Void", 0))}
    \cup {FunctionCallFrame("HostPrint", p, "Host", "Int") : p \in OptParams}
    \cup {FunctionCallFrame("HostExit", NoneParams, "Host", "Void")}
    \cup {FunctionCallFrame(UnknownName, SomeParams(<<>>), "Host", "Int"),
          FunctionCallFrame("HostPrint", SomeParams(<<PV("String", 1)>>), "Guest", "Int")}

\* What a registered handler's closure can return: Result<ReturnValue>.
Ok(val) == [ok |-> TRUE, val |-> val, err |-> "NoError"]
Err(e) == [ok |-> FALSE, val |-> RV("Void", 0), err |-> e]
HandlerReturns == {Ok(RV("Int", 1)), Ok(RV("Void", 0)), Err("HandlerError")}

VARIABLES
    phase,                  \* "Uninitialized" | "Initialized"
    uninit_host_functions,  \* UninitializedSandbox registry
    host_functions,         \* Sandbox.host_functions
    stack_guard,            \* Sandbox.stack_guard
    executing_guest_call,   \* Sandbox.executing_guest_call
    needs_state_reset,      \* Sandbox.needs_state_reset
    num_runs,               \* Sandbox.num_runs
    mem_cookie,             \* the bytes at stack_cookie_addr in guest memory
    shared_output,          \* guest -> host frame region
    shared_input,           \* host -> guest frame region
    poisoned,               \* the sandbox observed a fatal error
    tpc,                    \* per host thread: position in call_guest_function
    cur_call,               \* the guest call in flight
    ret,                    \* what the step just taken returned to its caller
    turn,                   \* the dispatcher turn just taken, if the step was one
    guest_env,              \* the guest runtime's statics: how outb reaches the host
    gcall,                  \* the FunctionCall the guest dispatcher was handed
    gret,                   \* what the guest function returned for it
    gtrace,                 \* what the guest did while serving it, in order
    fnobs,                  \* the typed conversion just applied, with its result
    ctx,                    \* the C API Context: the handle tables
    hyp,                    \* the hypervisor's VMs and VCPUs, and the host memory
    unmapped,               \* the region handles an unmap has succeeded with
    kret,                   \* what the C API function just called handed back
    sandboxes,              \* the hypervisor resources held by live sandboxes
    kmode,                  \* who drives the hypervisor: a C caller or sandboxes
    hlfunc                  \* a HyperlightFunction: its mutex, closure and callers

vars == <<phase, uninit_host_functions, host_functions, stack_guard,
          executing_guest_call, needs_state_reset, num_runs, mem_cookie,
          shared_output, shared_input, poisoned, tpc, cur_call, ret, turn,
          guest_env, gcall, gret, gtrace, fnobs, ctx, hyp, unmapped, kret, sandboxes, kmode,
          hlfunc>>

\* The guest-side variables, which the host-side steps leave alone.
gvars == <<guest_env, gcall, gret, gtrace, fnobs>>
\* The hypervisor-side variables and the HyperlightFunction under concurrent
\* callers, which the sandbox's and the guest's steps leave alone.
kvars == <<ctx, hyp, unmapped, kret, sandboxes, kmode, hlfunc>>

\* ------------------------------------------------------------- handle_outb
\* One observable step of a dispatcher turn.
Ev(op, name, args, val, ok) ==
    [op |-> op, name |-> name, args |-> args, val |-> val, ok |-> ok]
\* get_host_function_call was called on shared output.
EvRead == Ev("read", "", <<>>, RV("Void", 0), TRUE)
\* outb_log read shared output.
EvReadLog == Ev("readlog", "", <<>>, RV("Void", 0), TRUE)
\* call_host_function(name, args) was called.
EvCall(name, args) == Ev("call", name, args, RV("Void", 0), TRUE)
\* The registered handler for name ran on args and returned r.
EvHandler(name, args, r) == Ev("handler", name, args, r.val, r.ok)
\* write_response_from_host_method_call wrote val into shared input.
EvWrite(val) == Ev("write", "", <<>>, val, TRUE)

\* Faulty variant: the host takes port 99 for the call port.
OutBAction_LogAsCall(port) ==
    CASE port = PortLog -> "CallFunction"
      [] port = PortCallFunction -> "CallFunction"
      [] port = PortAbort -> "Abort"
      [] OTHER -> "Unknown"

\* port.into(): u16 -> OutBAction
OutBAction(port) ==
    CASE port = PortLog -> "Log"
      [] port = PortCallFunction -> "CallFunction"
      [] port = PortAbort -> "Abort"
      [] OTHER -> "Unknown"

\* What handle_outb hands back: how it ended, what it did, and shared input.
Outb(result, err, events, si) ==
    [result |-> result, err |-> err, events |-> events, shared_input |-> si]

\* mem_mgr.get_host_function_call(): decode the frame in shared output.
\* A frame that is no FunctionCall of kind Host is rejected.
get_host_function_call(so) ==
    IF so.frame = "FunctionCall" /\ so.kind = "Host"
    THEN Ok(so)
    ELSE [Err("InvalidEncoding") EXCEPT !.val = so]

\* call.parameters.clone().unwrap_or(vec![])
unwrap_or_empty(params) == IF params.some THEN params.v ELSE <<>>

\* Registry validation of an inbound guest call.
validate(hf, name, args) ==
    IF name \notin DOMAIN hf THEN "GuestFunctionNotFound"
    ELSE IF Len(args) # Len(hf[name].parameter_types)
         THEN "GuestFunctionIncorrectNumberOfParameters"
    ELSE IF \E i \in 1..Len(args) : args[i].tag # hf[name].parameter_types[i]
         THEN "GuestFunctionParameterTypeMismatch"
    ELSE "NoError"

\* HyperlightFunction::call: lock the closure and run it on args; hret is
\* what the closure returns.
HyperlightFunction_call(args, hret) == hret

\* The threads that hold the HyperlightFunction or a clone of it.
Callers == {"t1", "t2", "t3"}

\* HyperlightFunction::new(f): Arc<Mutex<Box<f>>>, the mutex free and not
\* poisoned; captured is the state the FnMut closure carries, pc where each
\* thread is in call(), tmp what its closure run has read.
HyperlightFunction_new ==
    [holder |-> "none", poisoned |-> FALSE, captured |-> 0,
     pc |-> [t \in Callers |-> "idle"], tmp |-> [t \in Callers |-> 0]]

\* Faulty variant: no lock is taken around the closure.
lock_NoExclusion(holder, t) == TRUE

\* Faulty variant: a reentrant lock, which its holder can take again.
lock_Reentrant(holder, t) == holder \in {"none", t}

\* self.0.lock() returns for thread t: std::sync::Mutex is granted only
\* while nobody holds it, its holder included.
lock(holder, t) == holder = "none"

\* CallHostFunction::call_host_function: validate, then run the handler.
\* A validation failure becomes the GuestError return value; a handler error
\* or a return value of the wrong type is an error to the host.
call_host_function(hf, name, args, hret) ==
    LET code == validate(hf, name, args) IN
    IF code # "NoError"
    THEN [res |-> Ok(GuestErrorValue(code)), events |-> <<>>]
    ELSE LET r == HyperlightFunction_call(args, hret) IN
         [res |-> IF ~r.ok THEN r
                  ELSE IF r.val.tag # hf[name].return_type
                       THEN Err("ReturnValueConversionFailure")
                  ELSE r,
          events |-> <<EvHandler(name, args, r)>>]

\* mem_mgr.write_response_from_host_method_call(&res): encode the return
\* value into shared input; fits is whether the frame fits the region.
write_response_from_host_method_call(si, res, fits) ==
    IF fits THEN Ok(ReturnValueFrame(res)) ELSE [Err("WriteFailed") EXCEPT !.val = si]

\* outb_log(&self.mem_mgr): read a log record from shared output.
outb_log(so, si) ==
    IF so.frame = "LogData"
    THEN Outb("Ok", "NoError", <<EvReadLog>>, si)
    ELSE Outb("Err", "InvalidEncoding", <<EvReadLog>>, si)

\* Faulty variant: the arm runs the named handler itself, without the registry's
\* validation of the call.
CallFunctionArm_DirectInvoke(so, si, hf, hret, fits) ==
    LET call == get_host_function_call(so) IN
    IF ~call.ok THEN Outb("Err", call.err, <<EvRead>>, si)
    ELSE
    LET name == call.val.function_name
        args == unwrap_or_empty(call.val.parameters)
        r == HyperlightFunction_call(args, hret)
        done == <<EvRead, EvCall(name, args), EvHandler(name, args, r)>>
    IN
    IF ~r.ok THEN Outb("Err", r.err, done, si)
    ELSE
    LET w == write_response_from_host_method_call(si, r.val, fits) IN
    IF ~w.ok THEN Outb("Err", w.err, done, si)
    ELSE Outb("Ok", "NoError", done \o <<EvWrite(r.val)>>, w.val)

\* Faulty variant: the arm returns Ok without writing the response.
CallFunctionArm_OkWithoutWrite(so, si, hf, hret, fits) ==
    LET call == get_host_function_call(so) IN
    IF ~call.ok THEN Outb("Err", call.err, <<EvRead>>, si)
    ELSE
    LET name == call.val.function_name
        args == unwrap_or_empty(call.val.parameters)
        c == call_host_function(hf, name, args, hret)
        done == <<EvRead, EvCall(name, args)>> \o c.events
    IN
    IF ~c.res.ok THEN Outb("Err", c.res.err, done, si)
    ELSE Outb("Ok", "NoError", done, si)

\* Faulty variant: a failed invocation is also written to shared input, as a
\* GuestError return value, before the error is returned.
CallFunctionArm_WriteOnError(so, si, hf, hret, fits) ==
    LET call == get_host_function_call(so) IN
    IF ~call.ok THEN Outb("Err", call.err, <<EvRead>>, si)
    ELSE
    LET name == call.val.function_name
        args == unwrap_or_empty(call.val.parameters)
        c == call_host_function(hf, name, args, hret)
        done == <<EvRead, EvCall(name, args)>> \o c.events
    IN
    IF ~c.res.ok
    THEN Outb("Err", c.res.err, done,
              ReturnValueFrame(GuestErrorValue("GuestError")))
    ELSE
    LET w == write_response_from_host_method_call(si, c.res.val, fits) IN
    IF ~w.ok THEN Outb("Err", w.err, done, si)
    ELSE Outb("Ok", "NoError", done \o <<EvWrite(c.res.val)>>, w.val)

\* The OutBAction::CallFunction arm of handle_outb.
CallFunctionArm(so, si, hf, hret, fits) ==
    LET call == get_host_function_call(so) IN
    IF ~call.ok THEN Outb("Err", call.err, <<EvRead>>, si)
    ELSE
    LET name == call.val.function_name
        args == unwrap_or_empty(call.val.parameters)
        c == call_host_function(hf, name, args, hret)
        done == <<EvRead, EvCall(name, args)>> \o c.events
    IN
    IF ~c.res.ok THEN Outb("Err", c.res.err, done, si)
    ELSE
    LET w == write_response_from_host_method_call(si, c.res.val, fits) IN
    IF ~w.ok THEN Outb("Err", w.err, done, si)
    ELSE Outb("Ok", "NoError", done \o <<EvWrite(c.res.val)>>, w.val)

\* todo!(): panics with "not yet implemented".
todo(si) == Outb("Panic", "not yet implemented", <<>>, si)

\* The OutBAction::Abort arm of handle_outb.
AbortArm(byte, si) == todo(si)

\* The catch-all arm of handle_outb.
UnknownArm(si) == todo(si)

\* Sandbox::handle_outb(port, byte)
handle_outb(port, byte, so, si, hf, hret, fits) ==
    CASE OutBAction(port) = "Log" -> outb_log(so, si)
      [] OutBAction(port) = "CallFunction" -> CallFunctionArm(so, si, hf, hret, fits)
      [] OutBAction(port) = "Abort" -> AbortArm(byte, si)
      [] OTHER -> UnknownArm(si)

\* ------------------------------------------------------- sandbox lifecycle
NoCall == [thread |-> "none", return_type |-> "Void", reset |-> FALSE,
           function |-> "none", cancel |-> FALSE]
NoRet == [op |-> "none", thread |-> "none", res |-> "none", code |-> 0]
Ret(op, t, res) == [op |-> op, thread |-> t, res |-> res, code |-> 0]
NoTurn == [port |-> 0, byte |-> 0, result |-> "none", err |-> "NoError",
           events |-> <<>>, cookie_checked |-> FALSE, cookie_ok |-> TRUE,
           verdict |-> "none"]

\* The cookie new_uninitialized stamps below the stack.
UninitStackCookie == CookieStamped

\* Faulty variant: the sandbox starts with the in-flight-call flag set.
SandboxFrom_FlagSet(funcs, cookie) ==
    [host_functions |-> funcs,
     stack_guard |-> cookie,
     executing_guest_call |-> TRUE,
     needs_state_reset |-> FALSE,
     num_runs |-> 0]

\* Faulty variant: the registry is not carried over from the UninitializedSandbox.
SandboxFrom_NoFuncs(funcs, cookie) ==
    [host_functions |-> EmptyMap,
     stack_guard |-> cookie,
     executing_guest_call |-> FALSE,
     needs_state_reset |-> FALSE,
     num_runs |-> 0]

\* Faulty variant: the stack guard is left zeroed instead of copied.
SandboxFrom_ZeroGuard(funcs, cookie) ==
    [host_functions |-> funcs,
     stack_guard |-> "zeroed",
     executing_guest_call |-> FALSE,
     needs_state_reset |-> FALSE,
     num_runs |-> 0]

\* impl From<UninitializedSandbox> for Sandbox
SandboxFrom(funcs, cookie) ==
    [host_functions |-> funcs,
     stack_guard |-> cookie,
     executing_guest_call |-> FALSE,
     needs_state_reset |-> FALSE,
     num_runs |-> 0]

\* Faulty variant: the setter ignores its argument and clears the flag.
set_needs_state_reset_Clears(val) == FALSE

\* GuestMgr::set_needs_state_reset
set_needs_state_reset(val) == val

\* The largest value of an i32, the type of Sandbox::num_runs.
I32_MAX == 2147483647
\* The two ways the crate is built: with and without overflow checks.
Builds == {"debug", "release"}

\* GuestMgr::increase_num_runs: self.num_runs += 1 on an i32.  At i32::MAX
\* the addition overflows and the result wraps to i32::MIN.
increase_num_runs(n) == IF n = I32_MAX THEN (-I32_MAX) - 1 ELSE n + 1

\* The statement as a build executes it: with overflow checks the overflowing
\* addition panics and num_runs keeps its value.
increase_num_runs_in(build, n) ==
    IF build = "debug" /\ n = I32_MAX
    THEN [status |-> "Panic", v |-> n]
    ELSE [status |-> "Ok", v |-> increase_num_runs(n)]

\* AtomicBool compare-and-set false -> true on executing_guest_call.
compare_and_set(flag) == [success |-> flag = FALSE, flag |-> TRUE]

\* The snapshot taken right after evolve: cookie intact, regions empty.
Snapshot == [mem_cookie |-> UninitStackCookie, shared_input |-> EmptyFrame,
             shared_output |-> EmptyFrame]

\* The frame call_guest_function encodes into shared input.
GuestCallFrame(fn, rt) == FunctionCallFrame(fn, SomeParams(<<>>), "Guest", rt)

\* The dispatcher's decision after handle_outb came back: a panic unwinds
\* past it; otherwise the cookie is compared first and its failure wins.
DispatchVerdict(o, cookie, guard) ==
    IF o.result = "Panic" THEN [cookie_checked |-> FALSE, verdict |-> "Panic"]
    ELSE IF cookie # guard THEN [cookie_checked |-> TRUE, verdict |-> "StackOverflow"]
    ELSE IF o.result = "Err" THEN [cookie_checked |-> TRUE, verdict |-> "HostError"]
    ELSE [cookie_checked |-> TRUE, verdict |-> "Resume"]

\* The call's result when the guest halts with frame f in shared output.
HaltVerdict(f, rt, cookie, guard) ==
    IF cookie # guard THEN "StackOverflow"
    ELSE IF f.frame # "ReturnValue" THEN "InvalidEncoding"
    ELSE IF f.tag # rt THEN "ReturnValueConversionFailure"
    ELSE "Ok"

\* ------------------------------------------------------------ guest runtime
\* A string is the sequence of its characters; a literal of the source is
\* kept as one piece.
Strings == {<<>>, <<"x">>, <<"h", "i">>}
Ints == {-7, 0, 42}
Longs == {-1, 3, 10}
ByteVecs == {<<>>, <<9>>, <<1, 2>>}

\* Every ReturnValue variant, with sample payloads, and the GuestError
\* response a failed validation puts in its place.
ReturnValues ==
    {RV("Void", 0)} \cup {RV("Int", i) : i \in Ints} \cup {RV("UInt", 5), RV("ULong", 6)}
    \cup {RV("Long", l) : l \in Longs} \cup {RV("Bool", b) : b \in BOOLEAN}
    \cup {RV("String", s) : s \in Strings} \cup {RV("VecBytes", b) : b \in ByteVecs}
    \cup {GuestErrorValue("GuestFunctionNotFound")}

\* How outb reaches the host: the OUT instruction inside a VM, or one of the
\* two in-process callbacks.
OutbModes == {"RunningInHyperlight", "OutbPtrWithContext", "OutbPtr"}
NoGuestEnv == [outb_mode |-> "RunningInHyperlight", host_function_details |-> EmptyMap]
NoGuestCall == EmptyFrame

\* What a guest function hands back: Ok(value), Err(code), or how it ended
\* without returning (Panic, Aborted, Hang, Fault, Terminated).
GRet(status, val, code) ==
    [status |-> status, val |-> val, code |-> code, message |-> ""]
GOk(val) == GRet("Ok", val, "NoError")
GErr(code) == GRet("Err", RV("Void", 0), code)
\* HyperlightGuestError::new(code, message), where the message is computed
\* from the call; the fixed message texts of the other errors are left out.
HyperlightGuestError_new(code, message) == [GErr(code) EXCEPT !.message = message]
GEnd(status) == GRet(status, RV("Void", 0), "NoError")
NoGuestRet == GEnd("none")

\* One step the guest took: op, the port and value of an OUT, and the frame
\* pushed to shared output or popped from shared input.
GEv(op, port, value, frame) == [op |-> op, port |-> port, value |-> value, frame |-> frame]

\* What a piece of guest code leaves behind: its result, its steps, the two
\* shared regions and the host's dispatcher turn if it caused one.
GOut(r, events, so, si, hturn) ==
    [ret |-> r, events |-> events, shared_output |-> so, shared_input |-> si, turn |-> hturn]

\* What a piece of guest code does not control: the host's registry and
\* cookie, what a handler returns, whether frames fit the shared regions,
\* and whether an out-of-bounds access or a stack overrun goes unpunished.
CallEnv(hf, cookie, guard, hret, resp_fits, push_fits, mem_ok) ==
    [host_functions |-> hf, mem_cookie |-> cookie, stack_guard |-> guard,
     hret |-> hret, resp_fits |-> resp_fits, push_fits |-> push_fits, mem_ok |-> mem_ok]

\* The one element of a singleton set.
The(S) == CHOOSE x \in S : TRUE

\* The dispatcher turn an OUT on `port` causes.
HostTurn(port, value, so, si, h) ==
    The({LET d == DispatchVerdict(o, h.mem_cookie, h.stack_guard)
         IN [port |-> port, byte |-> value, result |-> o.result, err |-> o.err,
             events |-> o.events, cookie_checked |-> d.cookie_checked,
             cookie_ok |-> (h.mem_cookie = h.stack_guard), verdict |-> d.verdict,
             shared_input |-> o.shared_input] :
         o \in {handle_outb(port, value, so, si, h.host_functions, h.hret, h.resp_fits)}})

\* The part of a dispatcher turn the host records.
TurnRecord(ht) ==
    [port |-> ht.port, byte |-> ht.byte, result |-> ht.result, err |-> ht.err,
     events |-> ht.events, cookie_checked |-> ht.cookie_checked,
     cookie_ok |-> ht.cookie_ok, verdict |-> ht.verdict]

\* outb(port, value): hloutb in a VM, else the callback that is set; with
\* none set nothing is issued.  The host's turn happens inside the call.
outb(genv, port, value, so, si, h) ==
    IF genv.outb_mode \in {"RunningInHyperlight", "OutbPtrWithContext", "OutbPtr"}
    THEN The({[issued |-> TRUE, events |-> <<GEv("out", port, value, so)>>,
               resumed |-> ht.verdict = "Resume", shared_input |-> ht.shared_input,
               turn |-> TurnRecord(ht)] :
              ht \in {HostTurn(port, value, so, si, h)}})
    ELSE [issued |-> FALSE, events |-> <<>>, resumed |-> TRUE, shared_input |-> si,
          turn |-> NoTurn]

\* validate_host_function_call: against the guest-side table of known host
\* functions; an empty table defers validation to the host.
validate_host_function_call(genv, fc) ==
    IF DOMAIN genv.host_function_details = {} THEN "NoError"
    ELSE validate(genv.host_function_details, fc.function_name,
                  unwrap_or_empty(fc.parameters))

\* push_shared_output_data: the frame goes to shared output if it fits.
push_shared_output_data(so, frame, fits) ==
    IF fits THEN Ok(frame) ELSE [Err("GuestError") EXCEPT !.val = so]

\* Faulty variant: the frame is encoded with kind Guest.
FunctionCall_new_KindGuest(name, params, kind, rt) ==
    FunctionCallFrame(name, params, "Guest", rt)

\* FunctionCall::new(function_name, parameters, kind, return_type)
FunctionCall_new(name, params, kind, rt) == FunctionCallFrame(name, params, kind, rt)

\* Faulty variant: the OUT is issued before the frame is pushed, and also
\* when the push fails.
guest_call_host_function_OutFirst(genv, name, params, rt, so, si, h) ==
    LET fc == FunctionCall_new(name, params, "Host", rt)
        code == validate_host_function_call(genv, fc)
        o == outb(genv, PortCallFunction, 0, so, si, h)
        p == push_shared_output_data(so, fc, h.push_fits)
        done == <<GEv("validate", 0, 0, fc), GEv("serialize", 0, 0, fc)>> \o o.events
    IN
    IF code # "NoError"
    THEN GOut(GErr(code), <<GEv("validate", 0, 0, fc)>>, so, si, NoTurn)
    ELSE IF ~p.ok THEN GOut(GErr(p.err), done, so, o.shared_input, o.turn)
    ELSE GOut(IF o.resumed THEN GOk(RV("Void", 0)) ELSE GEnd("Terminated"),
              done \o <<GEv("push", 0, 0, fc)>>, p.val, o.shared_input, o.turn)

\* call_host_function of the guest runtime: build the FunctionCall of kind
\* Host, validate it, serialize it, push it to shared output, OUT 101 <- 0.
\* The call comes back Ok once the host has resumed the guest.
guest_call_host_function(genv, name, params, rt, so, si, h) ==
    LET fc == FunctionCall_new(name, params, "Host", rt)
        code == validate_host_function_call(genv, fc)
    IN
    IF code # "NoError"
    THEN GOut(GErr(code), <<GEv("validate", 0, 0, fc)>>, so, si, NoTurn)
    ELSE
    LET p == push_shared_output_data(so, fc, h.push_fits)
        done == <<GEv("validate", 0, 0, fc), GEv("serialize", 0, 0, fc)>>
    IN
    IF ~p.ok THEN GOut(GErr(p.err), done, so, si, NoTurn)
    ELSE
    The({GOut(IF o.resumed THEN GOk(RV("Void", 0)) ELSE GEnd("Terminated"),
              done \o <<GEv("push", 0, 0, fc)>> \o o.events, p.val, o.shared_input,
              o.turn) :
         o \in {outb(genv, PortCallFunction, 0, p.val, si, h)}})

\* The unit value ().
Unit == "()"

\* What an accessor hands back: Ok(payload), Err(GuestError), or the panic
\* of .expect() when no ReturnValue can be popped; and shared input after it.
AOk(v, si) == [status |-> "Ok", v |-> v, code |-> "NoError", shared_input |-> si]
AErr(si) == [status |-> "Err", v |-> 0, code |-> "GuestError", shared_input |-> si]
APanic(si) == [status |-> "Panic", v |-> 0, code |-> "NoError", shared_input |-> si]

\* try_pop_shared_input_data_into::<ReturnValue>()
try_pop_shared_input_data_into(si) ==
    IF si.frame = "ReturnValue" THEN Ok(si) ELSE [Err("GuestError") EXCEPT !.val = si]

\* Faulty variant: a return value of another type is left in shared input.
get_host_value_return_as_void_LeavesMismatch(si) ==
    LET p == try_pop_shared_input_data_into(si) IN
    IF ~p.ok THEN APanic(si)
    ELSE IF p.val.tag = "Void" THEN AOk(Unit, EmptyFrame) ELSE AErr(si)

get_host_value_return_as_void(si) ==
    LET p == try_pop_shared_input_data_into(si) IN
    IF ~p.ok THEN APanic(si)
    ELSE IF p.val.tag = "Void" THEN AOk(Unit, EmptyFrame) ELSE AErr(EmptyFrame)

\* Faulty variant: the discriminator is not looked at.
get_host_value_return_as_int_Unchecked(si) ==
    LET p == try_pop_shared_input_data_into(si) IN
    IF ~p.ok THEN APanic(si) ELSE AOk(p.val.v, EmptyFrame)

get_host_value_return_as_int(si) ==
    LET p == try_pop_shared_input_data_into(si) IN
    IF ~p.ok THEN APanic(si)
    ELSE IF p.val.tag = "Int" THEN AOk(p.val.v, EmptyFrame) ELSE AErr(EmptyFrame)

get_host_value_return_as_uint(si) ==
    LET p == try_pop_shared_input_data_into(si) IN
    IF ~p.ok THEN APanic(si)
    ELSE IF p.val.tag = "UInt" THEN AOk(p.val.v, EmptyFrame) ELSE AErr(EmptyFrame)

get_host_value_return_as_long(si) ==
    LET p == try_pop_shared_input_data_into(si) IN
    IF ~p.ok THEN APanic(si)
    ELSE IF p.val.tag = "Long" THEN AOk(p.val.v, EmptyFrame) ELSE AErr(EmptyFrame)

get_host_value_return_as_ulong(si) ==
    LET p == try_pop_shared_input_data_into(si) IN
    IF ~p.ok THEN APanic(si)
    ELSE IF p.val.tag = "ULong" THEN AOk(p.val.v, EmptyFrame) ELSE AErr(EmptyFrame)

get_host_value_return_as_vecbytes(si) ==
    LET p == try_pop_shared_input_data_into(si) IN
    IF ~p.ok THEN APanic(si)
    ELSE IF p.val.tag = "VecBytes" THEN AOk(p.val.v, EmptyFrame) ELSE AErr(EmptyFrame)

Accessors == {"void", "int", "uint", "long", "ulong", "vecbytes"}
get_host_value_return_as(T, si) ==
    CASE T = "void" -> get_host_value_return_as_void(si)
      [] T = "int" -> get_host_value_return_as_int(si)
      [] T = "uint" -> get_host_value_return_as_uint(si)
      [] T = "long" -> get_host_value_return_as_long(si)
      [] T = "ulong" -> get_host_value_return_as_ulong(si)
      [] T = "vecbytes" -> get_host_value_return_as_vecbytes(si)

\* ------------------------------------------------ host: SupportedReturnType
SupportedReturnTypes == {"()", "String", "i32", "i64", "bool", "Vec<u8>"}
\* The values of each supported type.
ValuesOf(T) ==
    CASE T = "()" -> {Unit}
      [] T = "String" -> Strings
      [] T = "i32" -> Ints
      [] T = "i64" -> Longs
      [] T = "bool" -> BOOLEAN
      [] T = "Vec<u8>" -> ByteVecs

\* Result<T> of get_inner.
IOk(x) == [ok |-> TRUE, v |-> x, err |-> "NoError"]
IErr(e) == [ok |-> FALSE, v |-> 0, err |-> e]

\* Faulty variant: i64 declares the discriminator of i32.
get_hyperlight_type_LongAsInt(T) ==
    CASE T = "()" -> "Void"
      [] T = "String" -> "String"
      [] T = "i32" -> "Int"
      [] T = "i64" -> "Int"
      [] T = "bool" -> "Bool"
      [] T = "Vec<u8>" -> "VecBytes"

\* T::get_hyperlight_type()
get_hyperlight_type(T) ==
    CASE T = "()" -> "Void"
      [] T = "String" -> "String"
      [] T = "i32" -> "Int"
      [] T = "i64" -> "Long"
      [] T = "bool" -> "Bool"
      [] T = "Vec<u8>" -> "VecBytes"

\* x.get_hyperlight_value()
get_hyperlight_value(T, x) ==
    CASE T = "()" -> RV("Void", 0)
      [] T = "String" -> RV("String", x)
      [] T = "i32" -> RV("Int", x)
      [] T = "i64" -> RV("Long", x)
      [] T = "bool" -> RV("Bool", x)
      [] T = "Vec<u8>" -> RV("VecBytes", x)

\* Faulty variant: i32 also accepts a Long.
get_inner_IntTakesLong(T, a) ==
    CASE T = "()" ->
           IF a.tag = "Void" THEN IOk(Unit) ELSE IErr("ReturnValueConversionFailure")
      [] T = "String" ->
           IF a.tag = "String" THEN IOk(a.v) ELSE IErr("ReturnValueConversionFailure")
      [] T = "i32" ->
           IF a.tag \in {"Int", "Long"} THEN IOk(a.v) ELSE IErr("ReturnValueConversionFailure")
      [] T = "i64" ->
           IF a.tag = "Long" THEN IOk(a.v) ELSE IErr("ReturnValueConversionFailure")
      [] T = "bool" ->
           IF a.tag = "Bool" THEN IOk(a.v) ELSE IErr("ReturnValueConversionFailure")
      [] T = "Vec<u8>" ->
           IF a.tag = "VecBytes" THEN IOk(a.v) ELSE IErr("ReturnValueConversionFailure")

\* T::get_inner(a)
get_inner(T, a) ==
    CASE T = "()" ->
           IF a.tag = "Void" THEN IOk(Unit) ELSE IErr("ReturnValueConversionFailure")
      [] T = "String" ->
           IF a.tag = "String" THEN IOk(a.v) ELSE IErr("ReturnValueConversionFailure")
      [] T = "i32" ->
           IF a.tag = "Int" THEN IOk(a.v) ELSE IErr("ReturnValueConversionFailure")
      [] T = "i64" ->
           IF a.tag = "Long" THEN IOk(a.v) ELSE IErr("ReturnValueConversionFailure")
      [] T = "bool" ->
           IF a.tag = "Bool" THEN IOk(a.v) ELSE IErr("ReturnValueConversionFailure")
      [] T = "Vec<u8>" ->
           IF a.tag = "VecBytes" THEN IOk(a.v) ELSE IErr("ReturnValueConversionFailure")

NoFnObs == [fn |-> "none", type |-> "", arg |-> 0, value |-> RV("Void", 0), out |-> IErr("none")]

\* -------------------------------------------------- simpleguest (test guest)
DEFAULT_GUEST_STACK_SIZE == 65536
MAX_BUFFER_SIZE == 1024

Digit(d) ==
    CASE d = 0 -> "0" [] d = 1 -> "1" [] d = 2 -> "2" [] d = 3 -> "3" [] d = 4 -> "4"
      [] d = 5 -> "5" [] d = 6 -> "6" [] d = 7 -> "7" [] d = 8 -> "8" [] d = 9 -> "9"
RECURSIVE DisplayNat(_)
DisplayNat(n) == IF n < 10 THEN <<Digit(n)>> ELSE Append(DisplayNat(n \div 10), Digit(n % 10))
\* format!("{}", x) of an i32 or i64, a bool, a String.
DisplayInt(n) == IF n < 0 THEN <<"-">> \o DisplayNat(-n) ELSE DisplayNat(n)
DisplayBool(b) == IF b THEN <<"t", "r", "u", "e">> ELSE <<"f", "a", "l", "s", "e">>
Display(p) ==
    CASE p.tag = "String" -> p.v
      [] p.tag \in {"Int", "Long"} -> DisplayInt(p.v)
      [] p.tag = "Bool" -> DisplayBool(p.v)

\* flatbuffer_utils: the encoded ReturnValue a guest function hands back.
get_flatbuffer_result_from_int(i) == RV("Int", i)
get_flatbuffer_result_from_string(s) == RV("String", s)
get_flatbuffer_result_from_void == RV("Void", 0)
get_flatbuffer_result_from_size_prefixed_buffer(data, length) == RV("VecBytes", data)

\* function_call.parameters.clone().unwrap()[0 .. n-1] can be taken: the
\* list is present and long enough.  Otherwise unwrap or the index panics.
Indexable(fc, n) == fc.parameters.some /\ Len(fc.parameters.v) >= n
Param(fc, i) == fc.parameters.v[i]
\* The `if let` pattern over the first Len(types) parameters matches.
Matches(fc, types) == \A i \in 1..Len(types) : Param(fc, i).tag = types[i]
TypeMismatch == GErr("GuestFunctionParameterTypeMismatch")
Returns(r, so, si) == GOut(r, <<>>, so, si, NoTurn)
\* The function stops without returning; ev is what it did on the way.
Ends(how, ev, so, si, hturn) == GOut(GEnd(how), ev, so, si, hturn)

\* Faulty variant: the host's value is dropped and 0 is returned.
print_output_DropsResult(message, genv, so, si, h) ==
    LET c == guest_call_host_function(genv, "HostPrint",
                 SomeParams(<<PV("String", message)>>), "Int", so, si, h)
    IN GOut(GOk(get_flatbuffer_result_from_int(0)), c.events, c.shared_output,
            c.shared_input, c.turn)

\* print_output(message): HostPrint(message), then the Int it returned.
print_output(message, genv, so, si, h) ==
    The({IF c.ret.status # "Ok" THEN c
         ELSE
         LET a == get_host_value_return_as_int(c.shared_input)
             ev == c.events \o <<GEv("pop", 0, 0, c.shared_input)>>
         IN
         CASE a.status = "Ok" ->
                GOut(GOk(get_flatbuffer_result_from_int(a.v)), ev, c.shared_output,
                     a.shared_input, c.turn)
           [] a.status = "Err" ->
                GOut(GErr(a.code), ev, c.shared_output, a.shared_input, c.turn)
           [] OTHER -> Ends("Panic", ev, c.shared_output, a.shared_input, c.turn) :
         c \in {guest_call_host_function(genv, "HostPrint",
                    SomeParams(<<PV("String", message)>>), "Int", so, si, h)}})

simple_print_output(fc, genv, so, si, h) ==
    IF ~Indexable(fc, 1) THEN Ends("Panic", <<>>, so, si, NoTurn)
    ELSE IF Matches(fc, <<"String">>) THEN print_output(Param(fc, 1).v, genv, so, si, h)
    ELSE Returns(TypeMismatch, so, si)

print_two_args(fc, genv, so, si, h) ==
    IF ~Indexable(fc, 2) THEN Ends("Panic", <<>>, so, si, NoTurn)
    ELSE IF Matches(fc, <<"String", "Int">>)
    THEN LET message ==
             <<"Message: arg1:">> \o Display(Param(fc, 1))
             \o <<" arg2:">> \o Display(Param(fc, 2)) \o <<".">>
         IN print_output(message, genv, so, si, h)
    ELSE Returns(TypeMismatch, so, si)

print_three_args(fc, genv, so, si, h) ==
    IF ~Indexable(fc, 3) THEN Ends("Panic", <<>>, so, si, NoTurn)
    ELSE IF Matches(fc, <<"String", "Int", "Long">>)
    THEN LET message ==
             <<"Message: arg1:">> \o Display(Param(fc, 1))
             \o <<" arg2:">> \o Display(Param(fc, 2))
             \o <<" arg3:">> \o Display(Param(fc, 3)) \o <<".">>
         IN print_output(message, genv, so, si, h)
    ELSE Returns(TypeMismatch, so, si)

print_four_args(fc, genv, so, si, h) ==
    IF ~Indexable(fc, 4) THEN Ends("Panic", <<>>, so, si, NoTurn)
    ELSE IF Matches(fc, <<"String", "Int", "Long", "String">>)
    THEN LET message ==
             <<"Message: arg1:">> \o Display(Param(fc, 1))
             \o <<" arg2:">> \o Display(Param(fc, 2))
             \o <<" arg3:">> \o Display(Param(fc, 3))
             \o <<" arg4:">> \o Display(Param(fc, 4)) \o <<".">>
         IN print_output(message, genv, so, si, h)
    ELSE Returns(TypeMismatch, so, si)

print_five_args(fc, genv, so, si, h) ==
    IF ~Indexable(fc, 5) THEN Ends("Panic", <<>>, so, si, NoTurn)
    ELSE IF Matches(fc, <<"String", "Int", "Long", "String", "String">>)
    THEN LET message ==
             <<"Message: arg1:">> \o Display(Param(fc, 1))
             \o <<" arg2:">> \o Display(Param(fc, 2))
             \o <<" arg3:">> \o Display(Param(fc, 3))
             \o <<" arg4:">> \o Display(Param(fc, 4))
             \o <<" arg5:">> \o Display(Param(fc, 5)) \o <<".">>
         IN print_output(message, genv, so, si, h)
    ELSE Returns(TypeMismatch, so, si)

print_six_args(fc, genv, so, si, h) ==
    IF ~Indexable(fc, 6) THEN Ends("Panic", <<>>, so, si, NoTurn)
    ELSE IF Matches(fc, <<"String", "Int", "Long", "String", "String", "Bool">>)
    THEN LET message ==
             <<"Message: arg1:">> \o Display(Param(fc, 1))
             \o <<" arg2:">> \o Display(Param(fc, 2))
             \o <<" arg3:">> \o Display(Param(fc, 3))
             \o <<" arg4:">> \o Display(Param(fc, 4))
             \o <<" arg5:">> \o Display(Param(fc, 5))
             \o <<" arg6:">> \o Display(Param(fc, 6)) \o <<".">>
         IN print_output(message, genv, so, si, h)
    ELSE Returns(TypeMismatch, so, si)

print_seven_args(fc, genv, so, si, h) ==
    IF ~Indexable(fc, 7) THEN Ends("Panic", <<>>, so, si, NoTurn)
    ELSE IF Matches(fc, <<"String", "Int", "Long", "String", "String", "Bool", "Bool">>)
    THEN LET message ==
             <<"Message: arg1:">> \o Display(Param(fc, 1))
             \o <<" arg2:">> \o Display(Param(fc, 2))
             \o <<" arg3:">> \o Display(Param(fc, 3))
             \o <<" arg4:">> \o Display(Param(fc, 4))
             \o <<" arg5:">> \o Display(Param(fc, 5))
             \o <<" arg6:">> \o Display(Param(fc, 6))
             \o <<" arg7:">> \o Display(Param(fc, 7)) \o <<".">>
         IN print_output(message, genv, so, si, h)
    ELSE Returns(TypeMismatch, so, si)

print_eight_args(fc, genv, so, si, h) ==
    IF ~Indexable(fc, 8) THEN Ends("Panic", <<>>, so, si, NoTurn)
    ELSE IF Matches(fc, <<"String", "Int", "Long", "String", "String", "Bool", "Bool", "String">>)
    THEN LET message ==
             <<"Message: arg1:">> \o Display(Param(fc, 1))
             \o <<" arg2:">> \o Display(Param(fc, 2))
             \o <<" arg3:">> \o Display(Param(fc, 3))
             \o <<" arg4:">> \o Display(Param(fc, 4))
             \o <<" arg5:">> \o Display(Param(fc, 5))
             \o <<" arg6:">> \o Display(Param(fc, 6))
             \o <<" arg7:">> \o Display(Param(fc, 7))
             \o <<" arg8:">> \o Display(Param(fc, 8)) \o <<".">>
         IN print_output(message, genv, so, si, h)
    ELSE Returns(TypeMismatch, so, si)

print_nine_args(fc, genv, so, si, h) ==
    IF ~Indexable(fc, 9) THEN Ends("Panic", <<>>, so, si, NoTurn)
    ELSE IF Matches(fc, <<"String", "Int", "Long", "String", "String", "Bool", "Bool", "String", "Long">>)
    THEN LET message ==
             <<"Message: arg1:">> \o Display(Param(fc, 1))
             \o <<" arg2:">> \o Display(Param(fc, 2))
             \o <<" arg3:">> \o Display(Param(fc, 3))
             \o <<" arg4:">> \o Display(Param(fc, 4))
             \o <<" arg5:">> \o Display(Param(fc, 5))
             \o <<" arg6:">> \o Display(Param(fc, 6))
             \o <<" arg7:">> \o Display(Param(fc, 7))
             \o <<" arg8:">> \o Display(Param(fc, 8))
             \o <<" arg9:">> \o Display(Param(fc, 9)) \o <<".">>
         IN print_output(message, genv, so, si, h)
    ELSE Returns(TypeMismatch, so, si)

print_ten_args(fc, genv, so, si, h) ==
    IF ~Indexable(fc, 10) THEN Ends("Panic", <<>>, so, si, NoTurn)
    ELSE IF Matches(fc, <<"String", "Int", "Long", "String", "String", "Bool", "Bool", "String", "Long", "Int">>)
    THEN LET message ==
             <<"Message: arg1:">> \o Display(Param(fc, 1))
             \o <<" arg2:">> \o Display(Param(fc, 2))
             \o <<" arg3:">> \o Display(Param(fc, 3))
             \o <<" arg4:">> \o Display(Param(fc, 4))
             \o <<" arg5:">> \o Display(Param(fc, 5))
             \o <<" arg6:">> \o Display(Param(fc, 6))
             \o <<" arg7:">> \o Display(Param(fc, 7))
             \o <<" arg8:">> \o Display(Param(fc, 8))
             \o <<" arg9:">> \o Display(Param(fc, 9))
             \o <<" arg10:">> \o Display(Param(fc, 10)) \o <<".">>
         IN print_output(message, genv, so, si, h)
    ELSE Returns(TypeMismatch, so, si)

set_byte_array_to_zero(fc, genv, so, si, h) ==
    IF ~Indexable(fc, 2) THEN Ends("Panic", <<>>, so, si, NoTurn)
    ELSE IF Matches(fc, <<"VecBytes", "Int">>)
    THEN \* `length` bytes are zeroed through the vector's pointer; past
         \* the vector's end the write is out of bounds.
         IF Param(fc, 2).v <= Len(Param(fc, 1).v) \/ h.mem_ok
         THEN Returns(GOk(get_flatbuffer_result_from_void), so, si)
         ELSE Ends("Fault", <<>>, so, si, NoTurn)
    ELSE Returns(TypeMismatch, so, si)

stack_allocate(fc, genv, so, si, h) ==
    IF ~Indexable(fc, 1) THEN Ends("Panic", <<>>, so, si, NoTurn)
    ELSE IF Matches(fc, <<"Int">>)
    THEN LET length == Param(fc, 1).v
             alloc_length == IF length = 0 THEN DEFAULT_GUEST_STACK_SIZE + 1 ELSE length
         IN IF (alloc_length > 0 /\ alloc_length <= DEFAULT_GUEST_STACK_SIZE) \/ h.mem_ok
            THEN Returns(GOk(get_flatbuffer_result_from_int(alloc_length)), so, si)
            ELSE Ends("Fault", <<>>, so, si, NoTurn)
    ELSE Returns(TypeMismatch, so, si)

buffer_overrun(fc, genv, so, si, h) ==
    IF ~Indexable(fc, 1) THEN Ends("Panic", <<>>, so, si, NoTurn)
    ELSE IF Matches(fc, <<"String">>)
    THEN Returns(GOk(get_flatbuffer_result_from_int(17 - Len(Param(fc, 1).v))), so, si)
    ELSE Returns(TypeMismatch, so, si)

\* loop_stack_overflow(i) puts i frames of 8 KiB + 1 B on the stack.
stack_overflow(fc, genv, so, si, h) ==
    IF ~Indexable(fc, 1) THEN Ends("Panic", <<>>, so, si, NoTurn)
    ELSE IF Matches(fc, <<"Int">>)
    THEN LET i == Param(fc, 1).v IN
         IF i <= 0 \/ i * 8193 <= DEFAULT_GUEST_STACK_SIZE \/ h.mem_ok
         THEN Returns(GOk(get_flatbuffer_result_from_int(i)), so, si)
         ELSE Ends("Fault", <<>>, so, si, NoTurn)
    ELSE Returns(TypeMismatch, so, si)

large_var(fc, genv, so, si, h) ==
    IF h.mem_ok
    THEN Returns(GOk(get_flatbuffer_result_from_int(DEFAULT_GUEST_STACK_SIZE + 1)), so, si)
    ELSE Ends("Fault", <<>>, so, si, NoTurn)

small_var(fc, genv, so, si, h) ==
    Returns(GOk(get_flatbuffer_result_from_int(1024)), so, si)

\* Vec::with_capacity(alloc_length as usize) panics on a negative size.
call_malloc(fc, genv, so, si, h) ==
    IF ~Indexable(fc, 1) THEN Ends("Panic", <<>>, so, si, NoTurn)
    ELSE IF Matches(fc, <<"Int">>)
    THEN LET size == Param(fc, 1).v
             alloc_length == IF size < DEFAULT_GUEST_STACK_SIZE THEN size
                             ELSE IF size < MAX_BUFFER_SIZE THEN size ELSE MAX_BUFFER_SIZE
         IN IF alloc_length < 0 THEN Ends("Panic", <<>>, so, si, NoTurn)
            ELSE Returns(GOk(get_flatbuffer_result_from_int(size)), so, si)
    ELSE Returns(TypeMismatch, so, si)

malloc_and_free(fc, genv, so, si, h) ==
    IF ~Indexable(fc, 1) THEN Ends("Panic", <<>>, so, si, NoTurn)
    ELSE IF Matches(fc, <<"Int">>)
    THEN LET size == Param(fc, 1).v
             alloc_length == IF size < DEFAULT_GUEST_STACK_SIZE THEN size
                             ELSE IF size < MAX_BUFFER_SIZE THEN size ELSE MAX_BUFFER_SIZE
         IN IF alloc_length < 0 THEN Ends("Panic", <<>>, so, si, NoTurn)
            ELSE Returns(GOk(get_flatbuffer_result_from_int(size)), so, si)
    ELSE Returns(TypeMismatch, so, si)

\* Faulty variant: echo reports the length of the string instead of the string.
echo_Length(fc, genv, so, si, h) ==
    IF ~Indexable(fc, 1) THEN Ends("Panic", <<>>, so, si, NoTurn)
    ELSE IF Matches(fc, <<"String">>)
    THEN Returns(GOk(get_flatbuffer_result_from_int(Len(Param(fc, 1).v))), so, si)
    ELSE Returns(TypeMismatch, so, si)

echo(fc, genv, so, si, h) ==
    IF ~Indexable(fc, 1) THEN Ends("Panic", <<>>, so, si, NoTurn)
    ELSE IF Matches(fc, <<"String">>)
    THEN Returns(GOk(get_flatbuffer_result_from_string(Param(fc, 1).v)), so, si)
    ELSE Returns(TypeMismatch, so, si)

get_size_prefixed_buffer(fc, genv, so, si, h) ==
    IF ~Indexable(fc, 2) THEN Ends("Panic", <<>>, so, si, NoTurn)
    ELSE IF Matches(fc, <<"VecBytes", "Int">>)
    THEN \* `length` bytes are read through the vector's pointer.
         IF Param(fc, 2).v <= Len(Param(fc, 1).v) \/ h.mem_ok
         THEN Returns(GOk(get_flatbuffer_result_from_size_prefixed_buffer(
                              Param(fc, 1).v, Param(fc, 2).v)), so, si)
         ELSE Ends("Fault", <<>>, so, si, NoTurn)
    ELSE Returns(TypeMismatch, so, si)

\* Faulty variant: the loop is left and the function returns.
spin_Returns(fc, genv, so, si, h) == Returns(GOk(get_flatbuffer_result_from_int(0)), so, si)

\* spin: loop {}; no OUT, no HLT, no return.
spin(fc, genv, so, si, h) == Ends("Hang", <<>>, so, si, NoTurn)

\* abort_with_code(code): OUT 102 <- code; the guest does not come back.
abort_with_code(code, genv, so, si, h) ==
    The({Ends("Aborted", <<GEv("abort", PortAbort, code % 256, so)>> \o o.events, so,
              o.shared_input, o.turn) :
         o \in {outb(genv, PortAbort, code % 256, so, si, h)}})

test_abort(fc, genv, so, si, h) ==
    IF ~Indexable(fc, 1) THEN Ends("Panic", <<>>, so, si, NoTurn)
    ELSE IF Matches(fc, <<"Int">>) THEN abort_with_code(Param(fc, 1).v, genv, so, si, h)
    ELSE Returns(GOk(get_flatbuffer_result_from_void), so, si)

test_abort_with_code_and_message(fc, genv, so, si, h) ==
    IF ~Indexable(fc, 2) THEN Ends("Panic", <<>>, so, si, NoTurn)
    ELSE IF Matches(fc, <<"Int", "String">>)
    THEN abort_with_code(Param(fc, 1).v, genv, so, si, h)
    ELSE Returns(GOk(get_flatbuffer_result_from_void), so, si)

test_guest_panic(fc, genv, so, si, h) ==
    IF ~Indexable(fc, 1) THEN Ends("Panic", <<>>, so, si, NoTurn)
    ELSE IF Matches(fc, <<"String">>) THEN Ends("Panic", <<GEv("panic", 0, 0, EmptyFrame)>>,
                                                so, si, NoTurn)
    ELSE Returns(GOk(get_flatbuffer_result_from_void), so, si)

\* hlmalloc(code as usize) as i32: the address handed out, 0 when refused.
test_rust_malloc(fc, genv, so, si, h) ==
    IF ~Indexable(fc, 1) THEN Ends("Panic", <<>>, so, si, NoTurn)
    ELSE IF Matches(fc, <<"Int">>)
    THEN Returns(GOk(get_flatbuffer_result_from_int(
                         IF Param(fc, 1).v < 0 \/ ~h.mem_ok THEN 0 ELSE 4096)), so, si)
    ELSE Returns(TypeMismatch, so, si)

log_message(fc, genv, so, si, h) ==
    IF ~fc.parameters.some THEN Ends("Panic", <<>>, so, si, NoTurn)
    ELSE IF Len(fc.parameters.v) # 2
    THEN Returns(GErr("GuestFunctionIncorrecNoOfParameters"), so, si)
    ELSE IF Matches(fc, <<"String", "Int">>)
    THEN GOut(GOk(get_flatbuffer_result_from_void), <<GEv("log", 0, Param(fc, 2).v, EmptyFrame)>>,
              so, si, NoTurn)
    ELSE Returns(TypeMismatch, so, si)

\* Faulty variant: the error does not name the function that was asked for.
guest_dispatch_function_NoName(fc, so, si) ==
    Returns(HyperlightGuestError_new("GuestFunctionNotFound", ""), so, si)

\* guest_dispatch_function: the fallback for a name that is not registered.
guest_dispatch_function(fc, so, si) ==
    Returns(HyperlightGuestError_new("GuestFunctionNotFound", fc.function_name), so, si)

GuestFunctionDefinition(types, rt, handler) ==
    [parameter_types |-> types, return_type |-> rt, handler |-> handler]

\* What hyperlight_main registers.
RegisteredNames ==
    {"PrintOutput", "PrintUsingPrintf", "StackAllocate", "StackOverflow", "BufferOverrun",
     "LargeVar", "SmallVar", "CallMalloc", "MallocAndFree", "PrintTwoArgs",
     "PrintThreeArgs", "PrintFourArgs", "PrintFiveArgs", "PrintSixArgs", "PrintSevenArgs",
     "PrintEightArgs", "PrintNineArgs", "PrintTenArgs", "SetByteArrayToZero", "Echo",
     "GetSizePrefixedBuffer", "Spin", "test_abort", "abort_with_code_and_message",
     "guest_panic", "test_rust_malloc", "LogMessage"}

TenTypes == <<"String", "Int", "Long", "String", "String", "Bool", "Bool", "String",
              "Long", "Int">>

hyperlight_main(name) ==
    CASE name = "PrintOutput" -> GuestFunctionDefinition(<<"String">>, "Int", "simple_print_output")
      [] name = "PrintUsingPrintf" ->
           GuestFunctionDefinition(<<"String">>, "Int", "simple_print_output")
      [] name = "StackAllocate" -> GuestFunctionDefinition(<<"Int">>, "Int", "stack_allocate")
      [] name = "StackOverflow" -> GuestFunctionDefinition(<<"Int">>, "Int", "stack_overflow")
      [] name = "BufferOverrun" -> GuestFunctionDefinition(<<"String">>, "Int", "buffer_overrun")
      [] name = "LargeVar" -> GuestFunctionDefinition(<<>>, "Int", "large_var")
      [] name = "SmallVar" -> GuestFunctionDefinition(<<>>, "Int", "small_var")
      [] name = "CallMalloc" -> GuestFunctionDefinition(<<"Int">>, "Int", "call_malloc")
      [] name = "MallocAndFree" -> GuestFunctionDefinition(<<"Int">>, "Int", "malloc_and_free")
      [] name = "PrintTwoArgs" ->
           GuestFunctionDefinition(SubSeq(TenTypes, 1, 2), "Int", "print_two_args")
      [] name = "PrintThreeArgs" ->
           GuestFunctionDefinition(SubSeq(TenTypes, 1, 3), "Int", "print_three_args")
      [] name = "PrintFourArgs" ->
           GuestFunctionDefinition(SubSeq(TenTypes, 1, 4), "Int", "print_four_args")
      [] name = "PrintFiveArgs" ->
           GuestFunctionDefinition(SubSeq(TenTypes, 1, 5), "Int", "print_five_args")
      [] name = "PrintSixArgs" ->
           GuestFunctionDefinition(SubSeq(TenTypes, 1, 6), "Int", "print_six_args")
      [] name = "PrintSevenArgs" ->
           GuestFunctionDefinition(SubSeq(TenTypes, 1, 7), "Int", "print_seven_args")
      [] name = "PrintEightArgs" ->
           GuestFunctionDefinition(SubSeq(TenTypes, 1, 8), "Int", "print_eight_args")
      [] name = "PrintNineArgs" ->
           GuestFunctionDefinition(SubSeq(TenTypes, 1, 9), "Int", "print_nine_args")
      [] name = "PrintTenArgs" -> GuestFunctionDefinition(TenTypes, "Int", "print_ten_args")
      [] name = "SetByteArrayToZero" ->
           GuestFunctionDefinition(<<"VecBytes", "Int">>, "Int", "set_byte_array_to_zero")
      [] name = "Echo" -> GuestFunctionDefinition(<<"String">>, "Int", "echo")
      [] name = "GetSizePrefixedBuffer" ->
           GuestFunctionDefinition(<<"VecBytes", "Int">>, "Int", "get_size_prefixed_buffer")
      [] name = "Spin" -> GuestFunctionDefinition(<<>>, "Int", "spin")
      [] name = "test_abort" -> GuestFunctionDefinition(<<"Int">>, "Void", "test_abort")
      [] name = "abort_with_code_and_message" ->
           GuestFunctionDefinition(<<"Int", "String">>, "Void",
                                   "test_abort_with_code_and_message")
      [] name = "guest_panic" -> GuestFunctionDefinition(<<"String">>, "Void", "test_guest_panic")
      [] name = "test_rust_malloc" ->
           GuestFunctionDefinition(<<"Int">>, "Int", "test_rust_malloc")
      [] name = "LogMessage" ->
           GuestFunctionDefinition(<<"String", "Int">>, "Void", "log_message")

\* Calling through the registered handler address.
CallHandler(handler, fc, genv, so, si, h) ==
    CASE handler = "simple_print_output" -> simple_print_output(fc, genv, so, si, h)
      [] handler = "stack_allocate" -> stack_allocate(fc, genv, so, si, h)
      [] handler = "stack_overflow" -> stack_overflow(fc, genv, so, si, h)
      [] handler = "buffer_overrun" -> buffer_overrun(fc, genv, so, si, h)
      [] handler = "large_var" -> large_var(fc, genv, so, si, h)
      [] handler = "small_var" -> small_var(fc, genv, so, si, h)
      [] handler = "call_malloc" -> call_malloc(fc, genv, so, si, h)
      [] handler = "malloc_and_free" -> malloc_and_free(fc, genv, so, si, h)
      [] handler = "print_two_args" -> print_two_args(fc, genv, so, si, h)
      [] handler = "print_three_args" -> print_three_args(fc, genv, so, si, h)
      [] handler = "print_four_args" -> print_four_args(fc, genv, so, si, h)
      [] handler = "print_five_args" -> print_five_args(fc, genv, so, si, h)
      [] handler = "print_six_args" -> print_six_args(fc, genv, so, si, h)
      [] handler = "print_seven_args" -> print_seven_args(fc, genv, so, si, h)
      [] handler = "print_eight_args" -> print_eight_args(fc, genv, so, si, h)
      [] handler = "print_nine_args" -> print_nine_args(fc, genv, so, si, h)
      [] handler = "print_ten_args" -> print_ten_args(fc, genv, so, si, h)
      [] handler = "set_byte_array_to_zero" -> set_byte_array_to_zero(fc, genv, so, si, h)
      [] handler = "echo" -> echo(fc, genv, so, si, h)
      [] handler = "get_size_prefixed_buffer" -> get_size_prefixed_buffer(fc, genv, so, si, h)
      [] handler = "spin" -> spin(fc, genv, so, si, h)
      [] handler = "test_abort" -> test_abort(fc, genv, so, si, h)
      [] handler = "test_abort_with_code_and_message" ->
           test_abort_with_code_and_message(fc, genv, so, si, h)
      [] handler = "test_guest_panic" -> test_guest_panic(fc, genv, so, si, h)
      [] handler = "test_rust_malloc" -> test_rust_malloc(fc, genv, so, si, h)
      [] handler = "log_message" -> log_message(fc, genv, so, si, h)

\* The guest's dispatch of an inbound call: by name to the registered
\* handler, else to guest_dispatch_function.  The request frame has been
\* popped from shared input by then.
GuestDispatch(fc, genv, so, h) ==
    IF fc.function_name \in RegisteredNames
    THEN CallHandler(hyperlight_main(fc.function_name).handler, fc, genv, so, EmptyFrame, h)
    ELSE guest_dispatch_function(fc, so, EmptyFrame)

\* ------------------------------------------- hypervisor C API (capi/kvm.rs)
\* The host page size, and the handle that refers to nothing.
PAGE_SIZE == 4096
EmptyHandle == 0
\* The host memory a caller has to map, and what it passes when mapping.
HostAddrs == {65536, 131072}
\* <<guest_phys_addr, userspace_addr, mem_size>>: well-formed requests that
\* overlap or not, an unaligned size, an unaligned host address.
MapRequests == {<<0, 65536, PAGE_SIZE>>, <<0, 65536, 2 * PAGE_SIZE>>,
                <<PAGE_SIZE, 65536, PAGE_SIZE>>, <<0, 65536, 100>>,
                <<0, 65537, PAGE_SIZE>>}

\* A partial map key -> entry with nothing in it.
NoEntries == [h \in {} |-> 0]
\* Context: one table per kind of Hdl, keyed by the handles handed out.
NewContext ==
    [next |-> 1, kvms |-> {}, kvm_vmfds |-> NoEntries, kvm_vcpufds |-> NoEntries,
     kvm_user_mem_regions |-> NoEntries, kvm_regs |-> NoEntries,
     kvm_sregs |-> NoEntries, kvm_run_messages |-> NoEntries, errs |-> {}]
\* The hypervisor and the host process: VMs with their installed mappings and
\* the number of VCPUs created in them, VCPUs, and whether the host memory at
\* an address is still allocated.
NewHypervisor ==
    [vms |-> NoEntries, vcpus |-> NoEntries, mem |-> [a \in HostAddrs |-> "allocated"]]
\* Regs: the general-purpose bank (rip and rsp stand for all of it).
Regs(rip, rsp) == [rip |-> rip, rsp |-> rsp]
\* SRegs: the five fields CSRegs has too, and sregs, the kvm_sregs that
\* holds every other field of the bank.
SRegs(cs, cr0, cr3, cr4, efer, sregs) ==
    [cs |-> cs, cr0 |-> cr0, cr3 |-> cr3, cr4 |-> cr4, efer |-> efer, sregs |-> sregs]
\* CSRegs: SRegs without the kvm_sregs field.
CSRegs(cs, cr0, cr3, cr4, efer) ==
    [cs |-> cs, cr0 |-> cr0, cr3 |-> cr3, cr4 |-> cr4, efer |-> efer]
\* The banks of a VCPU that has just been created.
ResetRegs == Regs(0, 0)
ResetSRegs == SRegs(0, 0, 0, 0, 0, 0)
\* What a caller passes to kvm_set_registers and kvm_set_sregisters.
CallerRegs == {Regs(4096, 8192)}
CallerCSRegs == {CSRegs(8, 1, 2, 3, 4)}

\* What a C API function hands back.
NoKRet == [fn |-> "none", kind |-> "none", h |-> EmptyHandle, args |-> <<>>]
KState(c, y, u, kind, h) == [ctx |-> c, hyp |-> y, unmapped |-> u, kind |-> kind, h |-> h]

\* f with key h bound to v / with key h removed.
Put(f, h, v) == [k \in DOMAIN f \cup {h} |-> IF k = h THEN v ELSE f[k]]
Drop(f, h) == [k \in DOMAIN f \ {h} |-> f[k]]

\* Context::register_err: the error gets a fresh handle.
register_err(k) ==
    KState([k.ctx EXCEPT !.next = @ + 1, !.errs = @ \cup {k.ctx.next}], k.hyp, k.unmapped,
           "Err", k.ctx.next)
\* Context::get(handle, table, matches): the handle is a key of the table.
Context_get(h, table) == h \in DOMAIN table

\* kvm_open: kvm::open(), registered in ctx.kvms; ok is whether the device
\* could be opened.
kvm_open(k, ok) ==
    IF ok
    THEN KState([k.ctx EXCEPT !.next = @ + 1, !.kvms = @ \cup {k.ctx.next}], k.hyp, k.unmapped,
                "Handle", k.ctx.next)
    ELSE register_err(k)

\* Faulty variant: the VM is created without looking the handle up.
kvm_create_vm_NoLookup(k, kvm_handle, ok) ==
    IF ~ok THEN register_err(k)
    ELSE LET h == k.ctx.next IN
         KState([k.ctx EXCEPT !.next = @ + 1, !.kvm_vmfds = Put(@, h, h)],
                [k.hyp EXCEPT !.vms = Put(@, h, [alive |-> TRUE, vcpus_created |-> 0,
                                                  mappings |-> {}])],
                k.unmapped, "Handle", h)

\* kvm_create_vm: get_kvm, then kvm::create_vm, registered in ctx.kvm_vmfds.
kvm_create_vm(k, kvm_handle, ok) ==
    IF kvm_handle \notin k.ctx.kvms \/ ~ok THEN register_err(k)
    ELSE LET h == k.ctx.next IN
         KState([k.ctx EXCEPT !.next = @ + 1, !.kvm_vmfds = Put(@, h, h)],
                [k.hyp EXCEPT !.vms = Put(@, h, [alive |-> TRUE, vcpus_created |-> 0,
                                                  mappings |-> {}])],
                k.unmapped, "Handle", h)

\* Faulty variant: create_vcpu never refuses.
create_vcpu_Unlimited(vm) == TRUE

\* kvm::create_vcpu(vmfd) succeeds: the VM has no VCPU yet.
create_vcpu(vm) == vm.vcpus_created = 0

\* kvm_create_vcpu: get_vmfd, then kvm::create_vcpu, registered in
\* ctx.kvm_vcpufds.
kvm_create_vcpu(k, vmfd_hdl) ==
    IF ~Context_get(vmfd_hdl, k.ctx.kvm_vmfds) THEN register_err(k)
    ELSE LET vm == k.ctx.kvm_vmfds[vmfd_hdl] IN
         IF ~create_vcpu(k.hyp.vms[vm]) THEN register_err(k)
         ELSE LET h == k.ctx.next IN
              KState([k.ctx EXCEPT !.next = @ + 1, !.kvm_vcpufds = Put(@, h, h)],
                     [k.hyp EXCEPT !.vms[vm].vcpus_created = @ + 1,
                                   !.vcpus = Put(@, h, [vm |-> vm, alive |-> TRUE,
                                                        regs |-> ResetRegs,
                                                        sregs |-> ResetSRegs])],
                     k.unmapped, "Handle", h)

\* kvm_userspace_memory_region
MemRegion(gpa, uaddr, size) ==
    [guest_phys_addr |-> gpa, userspace_addr |-> uaddr, memory_size |-> size]
\* Two guest-physical ranges have an address in common.
Overlaps(a, b) ==
    /\ a.guest_phys_addr < b.guest_phys_addr + b.memory_size
    /\ b.guest_phys_addr < a.guest_phys_addr + a.memory_size

\* Faulty variant: the mapping is installed whatever is already mapped.
map_vm_memory_region_raw_NoOverlapCheck(vm, gpa, uaddr, size) ==
    /\ size % PAGE_SIZE = 0
    /\ uaddr % PAGE_SIZE = 0

\* map_vm_memory_region_raw accepts the request: whole pages, page-aligned
\* host address, no overlap with a mapping installed in the VM.
map_vm_memory_region_raw(vm, gpa, uaddr, size) ==
    /\ size % PAGE_SIZE = 0
    /\ uaddr % PAGE_SIZE = 0
    /\ \A m \in vm.mappings : ~Overlaps(m, MemRegion(gpa, uaddr, size))

\* kvm_map_vm_memory_region: get_vmfd, then map_vm_memory_region_raw, the
\* region descriptor registered in ctx.kvm_user_mem_regions.
kvm_map_vm_memory_region(k, vmfd_hdl, guest_phys_addr, userspace_addr, mem_size) ==
    IF ~Context_get(vmfd_hdl, k.ctx.kvm_vmfds) THEN register_err(k)
    ELSE LET vm == k.ctx.kvm_vmfds[vmfd_hdl]
             r == MemRegion(guest_phys_addr, userspace_addr, mem_size)
         IN
         IF ~map_vm_memory_region_raw(k.hyp.vms[vm], guest_phys_addr, userspace_addr, mem_size)
         THEN register_err(k)
         ELSE LET h == k.ctx.next IN
              KState([k.ctx EXCEPT !.next = @ + 1, !.kvm_user_mem_regions = Put(@, h, r)],
                     [k.hyp EXCEPT !.vms[vm].mappings = @ \cup {r}],
                     k.unmapped, "Handle", h)

\* The mappings of vm that the descriptor's guest-physical address selects.
Selected(vm, region) == {m \in vm.mappings : m.guest_phys_addr = region.guest_phys_addr}

\* kvm_unmap_vm_memory_region: get_vmfd, get_user_mem_region_mut, then
\* unmap_vm_memory_region_raw, which zeroes the descriptor's size and has the
\* hypervisor remove what the descriptor selects; it fails when there is
\* nothing to remove.  The descriptor stays registered under its handle.
kvm_unmap_vm_memory_region(k, vmfd_hdl, user_mem_region_hdl) ==
    IF ~Context_get(vmfd_hdl, k.ctx.kvm_vmfds) THEN register_err(k)
    ELSE IF ~Context_get(user_mem_region_hdl, k.ctx.kvm_user_mem_regions) THEN register_err(k)
    ELSE LET vm == k.ctx.kvm_vmfds[vmfd_hdl]
             region == k.ctx.kvm_user_mem_regions[user_mem_region_hdl]
             gone == Selected(k.hyp.vms[vm], region)
         IN
         IF gone = {} THEN register_err(k)
         ELSE KState([k.ctx EXCEPT !.kvm_user_mem_regions[user_mem_region_hdl].memory_size = 0],
                     [k.hyp EXCEPT !.vms[vm].mappings = @ \ gone],
                     k.unmapped \cup {user_mem_region_hdl},
                     "Empty", EmptyHandle)

\* kvm_get_registers: get_vcpufd, then kvm::get_registers, the bank
\* registered in ctx.kvm_regs; ok is whether the hypervisor call succeeds.
kvm_get_registers(k, vcpufd_hdl, ok) ==
    IF ~Context_get(vcpufd_hdl, k.ctx.kvm_vcpufds) \/ ~ok THEN register_err(k)
    ELSE LET h == k.ctx.next IN
         KState([k.ctx EXCEPT !.next = @ + 1,
                              !.kvm_regs = Put(@, h, k.hyp.vcpus[vcpufd_hdl].regs)],
                k.hyp, k.unmapped, "Handle", h)

\* Faulty variant: the registers are taken out of the context.
kvm_get_registers_from_handle_Consuming(k, regs_hdl) ==
    IF ~Context_get(regs_hdl, k.ctx.kvm_regs)
    THEN KState(k.ctx, k.hyp, k.unmapped, "Null", EmptyHandle)
    ELSE KState([k.ctx EXCEPT !.kvm_regs = Drop(@, regs_hdl)], k.hyp, k.unmapped,
                "Value", k.ctx.kvm_regs[regs_hdl])

\* kvm_get_registers_from_handle: a boxed copy of the registers under
\* regs_hdl, or NULL.
kvm_get_registers_from_handle(k, regs_hdl) ==
    IF ~Context_get(regs_hdl, k.ctx.kvm_regs)
    THEN KState(k.ctx, k.hyp, k.unmapped, "Null", EmptyHandle)
    ELSE KState(k.ctx, k.hyp, k.unmapped, "Value", k.ctx.kvm_regs[regs_hdl])

\* kvm_get_sregisters: get_vcpufd, then kvm::get_sregisters, the bank
\* registered in ctx.kvm_sregs.
kvm_get_sregisters(k, vcpufd_hdl, ok) ==
    IF ~Context_get(vcpufd_hdl, k.ctx.kvm_vcpufds) \/ ~ok THEN register_err(k)
    ELSE LET h == k.ctx.next IN
         KState([k.ctx EXCEPT !.next = @ + 1,
                              !.kvm_sregs = Put(@, h, k.hyp.vcpus[vcpufd_hdl].sregs)],
                k.hyp, k.unmapped, "Handle", h)

\* kvm_set_registers: get_vcpufd, then kvm::set_registers.
kvm_set_registers(k, vcpufd_hdl, regs, ok) ==
    IF ~Context_get(vcpufd_hdl, k.ctx.kvm_vcpufds) \/ ~ok THEN register_err(k)
    ELSE KState(k.ctx, [k.hyp EXCEPT !.vcpus[vcpufd_hdl].regs = regs], k.unmapped,
                "Empty", EmptyHandle)

\* Faulty variant: the merged bank is also stored back under sregs_hdl.
kvm_set_sregisters_StoresBack(k, vcpufd_hdl, sregs_hdl, csregs, ok) ==
    IF ~Context_get(vcpufd_hdl, k.ctx.kvm_vcpufds) THEN register_err(k)
    ELSE IF ~Context_get(sregs_hdl, k.ctx.kvm_sregs) THEN register_err(k)
    ELSE LET sregs == [k.ctx.kvm_sregs[sregs_hdl] EXCEPT
                          !.cs = csregs.cs, !.cr0 = csregs.cr0, !.cr3 = csregs.cr3,
                          !.cr4 = csregs.cr4, !.efer = csregs.efer]
             c == [k.ctx EXCEPT !.kvm_sregs[sregs_hdl] = sregs]
         IN
         IF ~ok THEN register_err([k EXCEPT !.ctx = c])
         ELSE KState(c, [k.hyp EXCEPT !.vcpus[vcpufd_hdl].sregs = sregs],
                     k.unmapped, "Empty", EmptyHandle)

\* kvm_set_sregisters: get_vcpufd, get_sregisters_from_handle, a copy of the
\* stored bank with cs, cr0, cr3, cr4 and efer overwritten from csregs, then
\* kvm::set_sregisters with that copy.
kvm_set_sregisters(k, vcpufd_hdl, sregs_hdl, csregs, ok) ==
    IF ~Context_get(vcpufd_hdl, k.ctx.kvm_vcpufds) THEN register_err(k)
    ELSE IF ~Context_get(sregs_hdl, k.ctx.kvm_sregs) THEN register_err(k)
    ELSE LET sregs == [k.ctx.kvm_sregs[sregs_hdl] EXCEPT
                          !.cs = csregs.cs, !.cr0 = csregs.cr0, !.cr3 = csregs.cr3,
                          !.cr4 = csregs.cr4, !.efer = csregs.efer]
         IN
         IF ~ok THEN register_err(k)
         ELSE KState(k.ctx, [k.hyp EXCEPT !.vcpus[vcpufd_hdl].sregs = sregs],
                     k.unmapped, "Empty", EmptyHandle)

\* What the guest does to the banks while it runs: it executes on and
\* loads a segment register.
guest_runs(vcpu) ==
    [vcpu EXCEPT !.regs.rip = 4100, !.sregs.sregs = 9]

\* kvm_run_vcpu: get_vcpufd, then kvm::run_vcpu, the exit message
\* registered in ctx.kvm_run_messages.
kvm_run_vcpu(k, vcpufd_hdl, ok) ==
    IF ~Context_get(vcpufd_hdl, k.ctx.kvm_vcpufds) \/ ~ok THEN register_err(k)
    ELSE LET h == k.ctx.next IN
         KState([k.ctx EXCEPT !.next = @ + 1, !.kvm_run_messages = Put(@, h, "Halt")],
                [k.hyp EXCEPT !.vcpus[vcpufd_hdl] = guest_runs(@)],
                k.unmapped, "Handle", h)

\* kvm_get_run_result_from_handle: a boxed copy of the message under the
\* handle, or NULL; the entry is not removed.
kvm_get_run_result_from_handle(k, handle) ==
    IF ~Context_get(handle, k.ctx.kvm_run_messages)
    THEN KState(k.ctx, k.hyp, k.unmapped, "Null", EmptyHandle)
    ELSE KState(k.ctx, k.hyp, k.unmapped, "Value", k.ctx.kvm_run_messages[handle])

\* handle_free: the entry leaves its table and the object behind it is
\* dropped: a VmFd or VcpuFd is closed, a region descriptor is plain data.
handle_free(k, h) ==
    CASE h \in k.ctx.kvms ->
           KState([k.ctx EXCEPT !.kvms = @ \ {h}], k.hyp, k.unmapped, "Freed", h)
      [] h \in DOMAIN k.ctx.kvm_vmfds ->
           KState([k.ctx EXCEPT !.kvm_vmfds = Drop(@, h)],
                  [k.hyp EXCEPT !.vms[k.ctx.kvm_vmfds[h]].alive = FALSE],
                  k.unmapped, "Freed", h)
      [] h \in DOMAIN k.ctx.kvm_vcpufds ->
           KState([k.ctx EXCEPT !.kvm_vcpufds = Drop(@, h)],
                  [k.hyp EXCEPT !.vcpus[h].alive = FALSE],
                  k.unmapped, "Freed", h)
      [] h \in DOMAIN k.ctx.kvm_user_mem_regions ->
           KState([k.ctx EXCEPT !.kvm_user_mem_regions = Drop(@, h)], k.hyp, k.unmapped,
                  "Freed", h)
      [] h \in DOMAIN k.ctx.kvm_regs ->
           KState([k.ctx EXCEPT !.kvm_regs = Drop(@, h)], k.hyp, k.unmapped, "Freed", h)
      [] h \in DOMAIN k.ctx.kvm_sregs ->
           KState([k.ctx EXCEPT !.kvm_sregs = Drop(@, h)], k.hyp, k.unmapped, "Freed", h)
      [] h \in DOMAIN k.ctx.kvm_run_messages ->
           KState([k.ctx EXCEPT !.kvm_run_messages = Drop(@, h)], k.hyp, k.unmapped,
                  "Freed", h)
      [] h \in k.ctx.errs ->
           KState([k.ctx EXCEPT !.errs = @ \ {h}], k.hyp, k.unmapped, "Freed", h)
      [] OTHER -> KState(k.ctx, k.hyp, k.unmapped, "NotFreed", h)

\* The caller frees the host memory at addr.
free_host_memory(k, addr) ==
    KState(k.ctx, [k.hyp EXCEPT !.mem[addr] = "freed"],
           k.unmapped, "Freed", EmptyHandle)

\* A sandbox's hypervisor resources: the handles it holds, its host memory,
\* and how many steps of its drop have been taken.
SandboxResources(kvm, vm, region, vcpu, addr) ==
    [kvm |-> kvm, vm |-> vm, region |-> region, vcpu |-> vcpu, addr |-> addr, dropped |-> 0]

\* new_uninitialized and evolve: host memory allocated, hypervisor opened, VM
\* created, memory mapped, VCPU created.
new_sandbox(k, addr) ==
    The({The({The({The({
        [o4 EXCEPT !.h = SandboxResources(o1.h, o2.h, o3.h, o4.h, addr)] :
        o4 \in {kvm_create_vcpu(o3, o2.h)}}) :
        o3 \in {kvm_map_vm_memory_region(o2, o2.h, 0, addr, 2 * PAGE_SIZE)}}) :
        o2 \in {kvm_create_vm(o1, o1.h, TRUE)}}) :
        o1 \in {kvm_open([k EXCEPT !.hyp.mem[addr] = "allocated"], TRUE)}})

\* Faulty variant: the VM goes before the VCPU and the memory is freed
\* while it is mapped.
drop_sandbox_VmFirst(k, s, step) ==
    CASE step = 1 -> handle_free(k, s.vm)
      [] step = 2 -> handle_free(k, s.vcpu)
      [] step = 3 -> free_host_memory(k, s.addr)
      [] step = 4 -> kvm_unmap_vm_memory_region(k, s.vm, s.region)
      [] step = 5 -> handle_free(k, s.region)
      [] OTHER -> handle_free(k, s.kvm)

\* drop(sandbox), one step at a time: VCPU, memory mapping with its
\* descriptor, VM, hypervisor connection, host memory.
drop_sandbox(k, s, step) ==
    CASE step = 1 -> handle_free(k, s.vcpu)
      [] step = 2 -> kvm_unmap_vm_memory_region(k, s.vm, s.region)
      [] step = 3 -> handle_free(k, s.region)
      [] step = 4 -> handle_free(k, s.vm)
      [] step = 5 -> handle_free(k, s.kvm)
      [] OTHER -> free_host_memory(k, s.addr)
DropSteps == 6

\* A caller brings a VCPU up: hypervisor opened, VM created, VCPU created.
new_vcpu(k) ==
    The({The({kvm_create_vcpu(o2, o2.h) : o2 \in {kvm_create_vm(o1, o1.h, TRUE)}}) :
         o1 \in {kvm_open(k, TRUE)}})

\* No hypervisor operation has been called.
KvmIdle ==
    /\ ctx = NewContext
    /\ hyp = NewHypervisor
    /\ unmapped = {}
    /\ kret = NoKRet
    /\ sandboxes = {}
    /\ kmode = "capi"

Init ==
    /\ phase = "Uninitialized"
    /\ uninit_host_functions = EmptyMap
    /\ host_functions = EmptyMap
    /\ stack_guard = "unset"
    /\ executing_guest_call = FALSE
    /\ needs_state_reset = FALSE
    /\ num_runs = 0
    /\ mem_cookie = UninitStackCookie
    /\ shared_output = EmptyFrame
    /\ shared_input = EmptyFrame
    /\ poisoned = FALSE
    /\ tpc = [t \in HostThreads |-> "idle"]
    /\ cur_call = NoCall
    /\ ret = NoRet
    /\ turn = NoTurn
    /\ guest_env = NoGuestEnv
    /\ gcall = NoGuestCall
    /\ gret = NoGuestRet
    /\ gtrace = <<>>
    /\ fnobs = NoFnObs
    /\ KvmIdle
    /\ hlfunc = HyperlightFunction_new

\* register_host_function: permitted on the UninitializedSandbox only, and
\* only for a name not yet present.
RegisterHostFunction(name) ==
    /\ UNCHANGED <<gvars, kvars>>
    /\ IF phase # "Uninitialized"
       THEN /\ ret' = Ret("register_host_function", "none", "NotUninitialized")
            /\ UNCHANGED uninit_host_functions
       ELSE IF name \in DOMAIN uninit_host_functions
       THEN /\ ret' = Ret("register_host_function", "none", "DuplicateHostFunction")
            /\ UNCHANGED uninit_host_functions
       ELSE /\ ret' = Ret("register_host_function", "none", "Ok")
            /\ uninit_host_functions' =
                 [n \in DOMAIN uninit_host_functions \cup {name} |->
                    HostFunctionDefinition(n)]
    /\ turn' = NoTurn
    /\ UNCHANGED <<phase, host_functions, stack_guard, executing_guest_call,
                   needs_state_reset, num_runs, mem_cookie, shared_output,
                   shared_input, poisoned, tpc, cur_call>>

\* evolve: Sandbox::from(uninitialized)
Evolve ==
    /\ UNCHANGED <<gvars, kvars>>
    /\ phase = "Uninitialized"
    /\ LET sbox == SandboxFrom(uninit_host_functions, UninitStackCookie) IN
       /\ host_functions' = sbox.host_functions
       /\ stack_guard' = sbox.stack_guard
       /\ executing_guest_call' = sbox.executing_guest_call
       /\ needs_state_reset' = sbox.needs_state_reset
       /\ num_runs' = sbox.num_runs
    /\ phase' = "Initialized"
    /\ ret' = NoRet
    /\ turn' = NoTurn
    /\ UNCHANGED <<uninit_host_functions, mem_cookie, shared_output, shared_input,
                   poisoned, tpc, cur_call>>

\* Sandbox::check_for_guest_error.  guest_err is what get_guest_error read
\* (ok = FALSE: the read failed), host_err what get_host_error would read:
\* "some", "none", or "unreadable".
check_for_guest_error(guest_err, host_err) ==
    IF ~guest_err.ok THEN Err("MemoryError")
    ELSE CASE guest_err.code = "NoError" -> Ok(RV("Void", 0))
           [] guest_err.code = "OutbError" ->
                CASE host_err = "unreadable" -> Err("MemoryError")
                  [] host_err = "some" -> Err("OutbError")
                  [] OTHER -> Ok(RV("Void", 0))
           [] guest_err.code = "StackOverflow" -> Err("StackOverflow")
           [] OTHER -> Err(guest_err.code)

\* Faulty variant: the guard field is overwritten with what guest memory holds.
get_stack_cookie_FromMemory(guard, cookie) == cookie

\* MemMgr::get_stack_cookie: the Sandbox's stack_guard field; cookie is what
\* the guest's memory holds below the stack, which it does not look at.
get_stack_cookie(guard, cookie) == guard

\* Sandbox::check_for_guest_error after a call: it reads the error regions
\* and changes nothing in the Sandbox.
CheckGuestErrorAfterCall ==
    /\ UNCHANGED <<gvars, kvars>>
    /\ phase = "Initialized"
    /\ \A t \in HostThreads : tpc[t] = "idle"
    /\ ret.op = "call_guest_function"
    /\ \E code \in {"NoError", "StackOverflow"} :
         \E o \in {check_for_guest_error([ok |-> TRUE, code |-> code], "none")} :
            ret' = Ret("check_for_guest_error", "none", IF o.ok THEN "Ok" ELSE "Err")
    /\ turn' = NoTurn
    /\ UNCHANGED <<phase, uninit_host_functions, host_functions, stack_guard,
                   executing_guest_call, needs_state_reset, num_runs, mem_cookie,
                   shared_output, shared_input, poisoned, tpc, cur_call>>

\* GuestMgr::increase_num_runs on the Sandbox.
IncreaseNumRuns ==
    /\ UNCHANGED <<gvars, kvars>>
    /\ phase = "Initialized"
    /\ num_runs < MaxRuns
    /\ num_runs' = increase_num_runs(num_runs)
    /\ ret' = NoRet
    /\ turn' = NoTurn
    /\ UNCHANGED <<phase, uninit_host_functions, host_functions, stack_guard,
                   executing_guest_call, needs_state_reset, mem_cookie, shared_output,
                   shared_input, poisoned, tpc, cur_call>>

\* The guest functions a host calls: one that runs and yields, and Spin.
GuestFunctions == {"GuestFn", "Spin"}
\* The guest function comes back to the host by itself (OUT or HLT); Spin is
\* what the simpleguest's spin does.
GuestYields(fn) ==
    fn = "Spin" =>
        \E o \in {spin(NoGuestCall, NoGuestEnv, EmptyFrame, EmptyFrame, NoTurn)} :
            o.ret.status # "Hang" \/ o.events # <<>>

\* call_guest_function, first step: a poisoned sandbox fails fast; else
\* take the in-flight-call token, or fail without blocking.
EnterCall(t) ==
    /\ UNCHANGED <<gvars, kvars>>
    /\ phase = "Initialized"
    /\ tpc[t] = "idle"
    /\ LET cas == compare_and_set(executing_guest_call) IN
       IF poisoned
       THEN /\ ret' = Ret("call_guest_function", t, "SandboxPoisoned")
            /\ UNCHANGED <<executing_guest_call, tpc, cur_call>>
       ELSE IF cas.success
       THEN /\ executing_guest_call' = cas.flag
            /\ tpc' = [tpc EXCEPT ![t] = "entered"]
            /\ ret' = NoRet
            /\ \E rt \in ReturnTypes, r \in BOOLEAN, fn \in GuestFunctions :
                 cur_call' = [thread |-> t, return_type |-> rt, reset |-> r,
                              function |-> fn, cancel |-> FALSE]
       ELSE /\ ret' = Ret("call_guest_function", t, "GuestCallAlreadyInProgress")
            /\ UNCHANGED <<executing_guest_call, tpc, cur_call>>
    /\ turn' = NoTurn
    /\ UNCHANGED <<phase, uninit_host_functions, host_functions, stack_guard,
                   needs_state_reset, num_runs, mem_cookie, shared_output,
                   shared_input, poisoned>>

\* Faulty variant: no failure poisons the sandbox.
Poisons_Never(res) == FALSE

\* A call that fails leaves the sandbox poisoned.
Poisons(res) == res # "Ok"

\* The call of thread t ends with result res: the token is released; a
\* failed call poisons the sandbox, a successful one restores the snapshot
\* and clears needs_state_reset when the caller opted into reset.
FinishCall(t, res, si) ==
    /\ tpc' = [tpc EXCEPT ![t] = "idle"]
    /\ ret' = Ret("call_guest_function", t, res)
    /\ executing_guest_call' = FALSE
    /\ cur_call' = NoCall
    /\ poisoned' = Poisons(res)
    /\ IF res = "Ok" /\ cur_call.reset
       THEN /\ mem_cookie' = Snapshot.mem_cookie
            /\ shared_input' = Snapshot.shared_input
            /\ shared_output' = Snapshot.shared_output
            /\ needs_state_reset' = set_needs_state_reset(FALSE)
       ELSE /\ shared_input' = si
            /\ UNCHANGED <<mem_cookie, shared_output, needs_state_reset>>

\* call_guest_function, second step: mark the state dirty, write the
\* request into shared input and start the VCPU.
BeginCall(t) ==
    /\ UNCHANGED <<gvars, kvars>>
    /\ tpc[t] = "entered"
    /\ tpc' = [tpc EXCEPT ![t] = "running"]
    /\ ret' = NoRet
    /\ needs_state_reset' = set_needs_state_reset(TRUE)
    /\ shared_input' = GuestCallFrame(cur_call.function, cur_call.return_type)
    /\ turn' = NoTurn
    /\ UNCHANGED <<phase, uninit_host_functions, host_functions, stack_guard,
                   executing_guest_call, cur_call, num_runs, mem_cookie,
                   shared_output, poisoned>>

\* The running guest writes a frame into shared output.
GuestWriteOutput(t) ==
    /\ UNCHANGED <<gvars, kvars>>
    /\ tpc[t] = "running"
    /\ GuestYields(cur_call.function)
    /\ \E f \in GuestOutFrames : shared_output' = f
    /\ ret' = NoRet
    /\ turn' = NoTurn
    /\ UNCHANGED <<phase, uninit_host_functions, host_functions, stack_guard,
                   executing_guest_call, needs_state_reset, num_runs, mem_cookie,
                   shared_input, poisoned, tpc, cur_call>>

\* The running guest overruns its stack and overwrites the cookie.
GuestSmashCookie(t) ==
    /\ UNCHANGED <<gvars, kvars>>
    /\ tpc[t] = "running"
    /\ GuestYields(cur_call.function)
    /\ mem_cookie' = CookieSmashed
    /\ ret' = NoRet
    /\ turn' = NoTurn
    /\ UNCHANGED <<phase, uninit_host_functions, host_functions, stack_guard,
                   executing_guest_call, needs_state_reset, num_runs, shared_output,
                   shared_input, poisoned, tpc, cur_call>>

\* run_vcpu returned IoOut{port, byte}: one dispatcher turn.  hret is what
\* the handler returns if it is run, fits whether the response fits shared
\* input.  The OUT byte is 0 except on the abort port, where it is the code.
IoOutExit(t) ==
    /\ UNCHANGED <<gvars, kvars>>
    /\ tpc[t] = "running"
    /\ GuestYields(cur_call.function)
    /\ ~cur_call.cancel
    /\ \E port \in Ports, byte \in Bytes, hret \in HandlerReturns, fits \in BOOLEAN :
        /\ port # PortAbort => byte = 0
        /\ LET o == handle_outb(port, byte, shared_output, shared_input,
                                host_functions, hret, fits)
               d == DispatchVerdict(o, mem_cookie, stack_guard)
           IN
           /\ turn' = [port |-> port, byte |-> byte, result |-> o.result,
                       err |-> o.err, events |-> o.events,
                       cookie_checked |-> d.cookie_checked,
                       cookie_ok |-> (mem_cookie = stack_guard),
                       verdict |-> d.verdict]
           /\ CASE d.verdict = "Resume" ->
                     /\ shared_input' = o.shared_input
                     /\ ret' = NoRet
                     /\ UNCHANGED <<tpc, executing_guest_call, cur_call, poisoned,
                                    needs_state_reset, mem_cookie, shared_output>>
                [] d.verdict = "Panic" ->
                     /\ shared_input' = o.shared_input
                     /\ tpc' = [tpc EXCEPT ![t] = "panicked"]
                     /\ ret' = Ret("call_guest_function", t, "Panic")
                     /\ UNCHANGED <<executing_guest_call, cur_call, poisoned,
                                    needs_state_reset, mem_cookie, shared_output>>
                [] OTHER -> FinishCall(t, d.verdict, o.shared_input)
    /\ UNCHANGED <<phase, uninit_host_functions, host_functions, stack_guard, num_runs>>

\* run_vcpu returned Halt: the guest call is complete.
HaltExit(t) ==
    /\ UNCHANGED <<gvars, kvars>>
    /\ tpc[t] = "running"
    /\ GuestYields(cur_call.function)
    /\ ~cur_call.cancel
    /\ FinishCall(t, HaltVerdict(shared_output, cur_call.return_type,
                                 mem_cookie, stack_guard), shared_input)
    /\ turn' = NoTurn
    /\ UNCHANGED <<phase, uninit_host_functions, host_functions, stack_guard, num_runs>>

\* The host signals the VCPU of the running call.
CancelCall(t) ==
    /\ UNCHANGED <<gvars, kvars>>
    /\ tpc[t] = "running"
    /\ ~cur_call.cancel
    /\ cur_call' = [cur_call EXCEPT !.cancel = TRUE]
    /\ ret' = NoRet
    /\ turn' = NoTurn
    /\ UNCHANGED <<phase, uninit_host_functions, host_functions, stack_guard,
                   executing_guest_call, needs_state_reset, num_runs, mem_cookie,
                   shared_output, shared_input, poisoned, tpc>>

\* run_vcpu returned MmioRead/MmioWrite, InternalError or Cancelled: a guest
\* that runs on may touch unmapped memory, the hypervisor may fail at any
\* time, and Cancelled is what run_vcpu returns once the VCPU was signalled.
FatalExit(t) ==
    /\ UNCHANGED <<gvars, kvars>>
    /\ tpc[t] = "running"
    /\ \E reason \in {"GuestMemoryFault", "HypervisorInternalError", "GuestCancelled"} :
         /\ reason = "GuestMemoryFault" => GuestYields(cur_call.function)
         /\ reason = "GuestCancelled" => cur_call.cancel
         /\ FinishCall(t, reason, shared_input)
    /\ turn' = NoTurn
    /\ UNCHANGED <<phase, uninit_host_functions, host_functions, stack_guard, num_runs>>

\* Explicit reset of the sandbox: restore the snapshot, clear the poison.
ResetSandbox ==
    /\ UNCHANGED <<gvars, kvars>>
    /\ phase = "Initialized"
    /\ executing_guest_call = FALSE
    /\ poisoned' = FALSE
    /\ mem_cookie' = Snapshot.mem_cookie
    /\ shared_input' = Snapshot.shared_input
    /\ shared_output' = Snapshot.shared_output
    /\ ret' = NoRet
    /\ turn' = NoTurn
    /\ UNCHANGED <<phase, uninit_host_functions, host_functions, stack_guard,
                   executing_guest_call, needs_state_reset, num_runs, tpc, cur_call>>

Next ==
    \/ \E n \in HostFunctionNames : RegisterHostFunction(n)
    \/ Evolve
    \/ IncreaseNumRuns
    \/ CheckGuestErrorAfterCall
    \/ \E t \in HostThreads : EnterCall(t)
    \/ \E t \in HostThreads : BeginCall(t)
    \/ \E t \in HostThreads : GuestWriteOutput(t)
    \/ \E t \in HostThreads : GuestSmashCookie(t)
    \/ \E t \in HostThreads : IoOutExit(t)
    \/ \E t \in HostThreads : HaltExit(t)
    \/ \E t \in HostThreads : CancelCall(t)
    \/ \E t \in HostThreads : FatalExit(t)
    \/ ResetSandbox

Spec == Init /\ [][Next]_vars

\* ------------------------------------------------------- the call protocol
RegistryOf(names) == [n \in names |-> HostFunctionDefinition(n)]
\* The registries a host may have built before evolve.
Registries == {EmptyMap, RegistryOf({"HostPrint"}), RegistryOf(HostFunctionNames)}
\* The guest-side tables of known host functions.
HostFunctionDetails == {EmptyMap, RegistryOf({"HostPrint"}), RegistryOf({"HostExit"})}

\* Sample payloads of each parameter type.
SampleValue(type, k) ==
    CASE type = "String" -> <<(<<"x">>), (<<"h", "i">>), (<<>>)>>[k]
      [] type = "Int" -> <<42, -7, 0>>[k]
      [] type = "Long" -> <<3, -1, 10>>[k]
      [] type = "Bool" -> <<TRUE, FALSE, TRUE>>[k]
      [] type = "VecBytes" -> <<(<<1, 2>>), (<<9>>), (<<>>)>>[k]
Samples == 1..3
\* A parameter list of the given types.
WellTyped(types, k) == [i \in 1..Len(types) |-> PV(types[i], SampleValue(types[i], k))]
\* A type other than t.
OtherType(t) == IF t = "String" THEN "Int" ELSE "String"
\* The list with the parameter at i replaced by one of another type.
WrongAt(types, i) ==
    [WellTyped(types, 1) EXCEPT ![i] = PV(OtherType(types[i]), SampleValue(OtherType(types[i]), 1))]
\* The parameter lists a host sends to a function declared with `types`:
\* well typed, one parameter of the wrong type, one short, one long.
ParamListsFor(types) ==
    {WellTyped(types, k) : k \in Samples}
    \cup {WrongAt(types, i) : i \in 1..Len(types)}
    \cup {SubSeq(WellTyped(types, 1), 1, Len(types) - 1) : x \in {y \in {Len(types)} : y > 0}}
    \cup {Append(WellTyped(types, 1), PV("Int", 0))}

\* Names that hyperlight_main does not register: differing in case from a
\* registered one, never heard of, a host function's name.
UnregisteredNames == {"echo", UnknownName, "HostPrint"}
\* The guest calls a host sends: to every registered function, and to names
\* that are not registered.
GuestCalls ==
    UNION {{FunctionCallFrame(n, SomeParams(p), "Guest", hyperlight_main(n).return_type) :
              p \in ParamListsFor(hyperlight_main(n).parameter_types)}
           \cup {FunctionCallFrame(n, NoneParams, "Guest", hyperlight_main(n).return_type)} :
           n \in RegisteredNames}
    \cup {FunctionCallFrame(n, p, "Guest", rt) :
              n \in UnregisteredNames, rt \in {"Int", "String"},
              p \in {NoneParams, SomeParams(<<>>), SomeParams(<<PV("String", <<"x">>)>>)}}

\* What the host's HostPrint handler can return.
PrintHandlerReturns ==
    {Ok(RV("Int", n)) : n \in {0, 3, 42}} \cup {Ok(RV("Void", 0)), Err("HandlerError")}

\* Host-side state that the steps of the call protocol leave alone.
hvars == <<phase, uninit_host_functions, host_functions, stack_guard, executing_guest_call,
           needs_state_reset, num_runs, mem_cookie, poisoned, tpc, cur_call, ret>>

\* An evolved sandbox with some registry, and a guest that has started up.
ProtocolInit ==
    /\ phase = "Initialized"
    /\ uninit_host_functions \in Registries
    /\ LET sbox == SandboxFrom(uninit_host_functions, UninitStackCookie) IN
       /\ host_functions = sbox.host_functions
       /\ stack_guard = sbox.stack_guard
       /\ executing_guest_call = sbox.executing_guest_call
       /\ needs_state_reset = sbox.needs_state_reset
       /\ num_runs = sbox.num_runs
    /\ mem_cookie = UninitStackCookie
    /\ shared_output = EmptyFrame
    /\ shared_input = EmptyFrame
    /\ poisoned = FALSE
    /\ tpc = [t \in HostThreads |-> "idle"]
    /\ cur_call = NoCall
    /\ ret = NoRet
    /\ turn = NoTurn
    /\ guest_env \in [outb_mode : OutbModes, host_function_details : HostFunctionDetails]
    /\ gcall = NoGuestCall
    /\ gret = NoGuestRet
    /\ gtrace = <<>>
    /\ fnobs = NoFnObs
    /\ KvmIdle
    /\ hlfunc = HyperlightFunction_new

\* Nothing is under way: the last outcome has been taken and the shared
\* regions are empty.
Quiescent ==
    /\ gcall = NoGuestCall /\ gret = NoGuestRet /\ gtrace = <<>> /\ fnobs = NoFnObs
    /\ turn = NoTurn /\ shared_input = EmptyFrame /\ shared_output = EmptyFrame

\* The host calls a guest function and the guest serves it.
ServeGuestCall ==
    /\ Quiescent
    /\ \E fc \in GuestCalls, hret \in PrintHandlerReturns,
          resp_fits \in BOOLEAN, push_fits \in BOOLEAN, mem_ok \in BOOLEAN :
         \E o \in {GuestDispatch(fc, guest_env, EmptyFrame,
                                  CallEnv(host_functions, mem_cookie, stack_guard, hret,
                                          resp_fits, push_fits, mem_ok))} :
            /\ gcall' = fc
            /\ gret' = o.ret
            /\ gtrace' = o.events
            /\ shared_output' = o.shared_output
            /\ shared_input' = o.shared_input
            /\ turn' = o.turn
    /\ fnobs' = NoFnObs
    /\ UNCHANGED <<hvars, kvars, guest_env>>

\* Guest code that does not go through the runtime leaves any frame in
\* shared output and issues OUT 101 <- 0.
RawCallFunctionOut ==
    /\ Quiescent
    /\ \E f \in GuestOutFrames, hret \in HandlerReturns, resp_fits \in BOOLEAN :
         \E o \in {outb(guest_env, PortCallFunction, 0, f, EmptyFrame,
                         CallEnv(host_functions, mem_cookie, stack_guard, hret, resp_fits,
                                 TRUE, TRUE))} :
            /\ gtrace' = o.events
            /\ gret' = GEnd(IF o.resumed THEN "Resumed" ELSE "Terminated")
            /\ shared_output' = f
            /\ shared_input' = o.shared_input
            /\ turn' = o.turn
    /\ gcall' = NoGuestCall
    /\ fnobs' = NoFnObs
    /\ UNCHANGED <<hvars, kvars, guest_env>>

\* Guest code leaves any frame in shared output and issues OUT 99 <- 0, as
\* the guest's logger does after writing a log record.
RawLogOut ==
    /\ Quiescent
    /\ \E f \in GuestOutFrames, hret \in HandlerReturns, resp_fits \in BOOLEAN :
         \E o \in {outb(guest_env, PortLog, 0, f, EmptyFrame,
                         CallEnv(host_functions, mem_cookie, stack_guard, hret, resp_fits,
                                 TRUE, TRUE))} :
            /\ gtrace' = o.events
            /\ gret' = GEnd(IF o.resumed THEN "Resumed" ELSE "Terminated")
            /\ shared_output' = f
            /\ shared_input' = o.shared_input
            /\ turn' = o.turn
    /\ gcall' = NoGuestCall
    /\ fnobs' = NoFnObs
    /\ UNCHANGED <<hvars, kvars, guest_env>>

\* The host leaves a return value in shared input.
HostWritesReturnValue ==
    /\ Quiescent
    /\ \E rv \in ReturnValues : shared_input' = ReturnValueFrame(rv)
    /\ gcall' = NoGuestCall
    /\ gret' = NoGuestRet
    /\ gtrace' = <<>>
    /\ turn' = NoTurn
    /\ fnobs' = NoFnObs
    /\ UNCHANGED <<hvars, kvars, guest_env, shared_output>>

\* The guest reads the host's return value through the accessor for T, or
\* calls the accessor for T after another accessor has returned Err.
GetHostValueReturn(T) ==
    /\ gcall = NoGuestCall /\ gret = NoGuestRet
    /\ \/ gtrace = <<>> /\ fnobs = NoFnObs
       \/ /\ Len(gtrace) = 1
          /\ fnobs.fn = "get_host_value_return_as"
          /\ fnobs.out.status = "Err"
    /\ LET a == get_host_value_return_as(T, shared_input) IN
       /\ fnobs' = [fn |-> "get_host_value_return_as", type |-> T, arg |-> 0,
                    value |-> shared_input,
                    out |-> [status |-> a.status, v |-> a.v, code |-> a.code]]
       /\ shared_input' = a.shared_input
    /\ gcall' = NoGuestCall
    /\ gret' = NoGuestRet
    /\ gtrace' = gtrace \o <<GEv("pop", 0, 0, shared_input)>>
    /\ turn' = NoTurn
    /\ UNCHANGED <<hvars, kvars, guest_env, shared_output>>

\* The host encodes a value of a supported return type and decodes it again.
EncodeReturnValue ==
    /\ Quiescent
    /\ \E T \in SupportedReturnTypes : \E x \in ValuesOf(T) :
         LET a == get_hyperlight_value(T, x) IN
         fnobs' = [fn |-> "get_hyperlight_value", type |-> T, arg |-> x, value |-> a,
                   out |-> get_inner(T, a)]
    /\ gcall' = NoGuestCall
    /\ gret' = NoGuestRet
    /\ gtrace' = <<>>
    /\ turn' = NoTurn
    /\ UNCHANGED <<hvars, kvars, guest_env, shared_output, shared_input>>

\* The host decodes a return value as a supported return type.
DecodeReturnValue ==
    /\ Quiescent
    /\ \E T \in SupportedReturnTypes, a \in ReturnValues :
         fnobs' = [fn |-> "get_inner", type |-> T, arg |-> 0, value |-> a,
                   out |-> get_inner(T, a)]
    /\ gcall' = NoGuestCall
    /\ gret' = NoGuestRet
    /\ gtrace' = <<>>
    /\ turn' = NoTurn
    /\ UNCHANGED <<hvars, kvars, guest_env, shared_output, shared_input>>

\* Error codes a guest can leave in the guest error region.
GuestErrorCodes ==
    {"NoError", "OutbError", "StackOverflow", "GuestError", "GuestFunctionNotFound",
     "GuestFunctionParameterTypeMismatch"}

\* The host checks the guest error region.
CheckForGuestError ==
    /\ Quiescent
    /\ \E code \in GuestErrorCodes, read_ok \in BOOLEAN, host_err \in {"some", "none", "unreadable"} :
         fnobs' = [fn |-> "check_for_guest_error", type |-> code,
                   arg |-> [read_ok |-> read_ok, host_err |-> host_err],
                   value |-> RV("Void", 0),
                   out |-> check_for_guest_error([ok |-> read_ok, code |-> code], host_err)]
    /\ gcall' = NoGuestCall
    /\ gret' = NoGuestRet
    /\ gtrace' = <<>>
    /\ turn' = NoTurn
    /\ UNCHANGED <<hvars, kvars, guest_env, shared_output, shared_input>>

\* The hloutb trampoline.  A register is the number it holds; al and dl are
\* the low 8 bits of rax and rdx, cx and dx the low 16 bits of rcx and rdx.
Low8(x) == x % 256
Low16(x) == x % 65536
Registers(rax, rcx, rdx) == [rax |-> rax, rcx |-> rcx, rdx |-> rdx]
xor_rax_rax(r) == [r EXCEPT !.rax = 0]
mov_al_dl(r) == [r EXCEPT !.rax = (@ - Low8(@)) + Low8(r.rdx)]
mov_dx_cx(r) == [r EXCEPT !.rdx = (@ - Low16(@)) + Low16(r.rcx)]
\* out dx, al: the exit the hypervisor sees.
out_dx_al(r) == [port |-> Low16(r.rdx), value |-> Low8(r.rax)]

\* Faulty variant: dx is overwritten with the port before al is loaded.
hloutb_PortFirst(r) == out_dx_al(mov_al_dl(mov_dx_cx(xor_rax_rax(r))))

\* hloutb: xor rax, rax; mov al, dl; mov dx, cx; out dx, al; ret
hloutb(r) == out_dx_al(mov_dx_cx(mov_al_dl(xor_rax_rax(r))))

\* Ports and values at the edges of their ranges, and what the registers may
\* hold above the argument.
TrampolinePorts == {0, PortLog, PortCallFunction, PortAbort, 255, 256, 65535}
TrampolineValues == {0, 1, 128, 255}
UpperBits == {0, 5}

\* The guest enters hloutb with the port in rcx and the value in rdx.
Hloutb ==
    /\ Quiescent
    /\ \E port \in TrampolinePorts, value \in TrampolineValues, up \in UpperBits :
         \E r \in {Registers(up * 65536 + 77, up * 65536 + port, up * 256 + value)} :
            fnobs' = [fn |-> "hloutb", type |-> "", arg |-> r, value |-> RV("Void", 0),
                      out |-> hloutb(r)]
    /\ gcall' = NoGuestCall
    /\ gret' = NoGuestRet
    /\ gtrace' = <<>>
    /\ turn' = NoTurn
    /\ UNCHANGED <<hvars, kvars, guest_env, shared_output, shared_input>>

\* The outcome is taken and the shared regions are cleared for the next step.
\* The statics outb reads: RUNNING_IN_HYPERLIGHT, and whether
\* OUTB_PTR_WITH_CONTEXT, P_PEB and OUTB_PTR are Some.
OutbStatics ==
    [running_in_hyperlight : BOOLEAN, outb_ptr_with_context : BOOLEAN,
     p_peb : BOOLEAN, outb_ptr : BOOLEAN]
\* One call outb makes.
OutbStep(callee, port, value) == [callee |-> callee, port |-> port, value |-> value]

\* Faulty variant: without a PEB the write falls back to OUTB_PTR.
outb_route_FallsBack(st, port, value) ==
    (IF st.running_in_hyperlight THEN <<OutbStep("hloutb", port, value)>>
     ELSE IF st.outb_ptr_with_context /\ st.p_peb
          THEN <<OutbStep("outb_func_with_context", port, value)>>
     ELSE IF st.outb_ptr THEN <<OutbStep("outb_func", port, value)>>
     ELSE <<>>)
    \o <<OutbStep("check_for_host_error", 0, 0)>>

\* outb(port, value), as the calls it makes in order: the if / else-if chain
\* over the statics, then check_for_host_error.
outb_route(st, port, value) ==
    (IF st.running_in_hyperlight THEN <<OutbStep("hloutb", port, value)>>
     ELSE IF st.outb_ptr_with_context
          THEN IF st.p_peb THEN <<OutbStep("outb_func_with_context", port, value)>>
               ELSE <<>>
     ELSE IF st.outb_ptr THEN <<OutbStep("outb_func", port, value)>>
     ELSE <<>>)
    \o <<OutbStep("check_for_host_error", 0, 0)>>

\* outb(port, value) under some setting of the statics.
OutbRoute ==
    /\ Quiescent
    /\ \E st \in OutbStatics, port \in {PortLog, PortCallFunction}, value \in Bytes :
         fnobs' = [fn |-> "outb", type |-> "", arg |-> [statics |-> st, port |-> port,
                                                       value |-> value],
                   value |-> RV("Void", 0), out |-> outb_route(st, port, value)]
    /\ gcall' = NoGuestCall
    /\ gret' = NoGuestRet
    /\ gtrace' = <<>>
    /\ turn' = NoTurn
    /\ UNCHANGED <<hvars, kvars, guest_env, shared_output, shared_input>>

\* Values of num_runs: a fresh Sandbox's, and the last ones of an i32.
NumRunsSamples == {0, 1, I32_MAX - 1, I32_MAX}

\* increase_num_runs on a Sandbox whose num_runs is n.
IncreaseNumRunsAt ==
    /\ Quiescent
    /\ \E n \in NumRunsSamples, build \in Builds :
         fnobs' = [fn |-> "increase_num_runs", type |-> build, arg |-> n,
                   value |-> RV("Void", 0), out |-> increase_num_runs_in(build, n)]
    /\ gcall' = NoGuestCall
    /\ gret' = NoGuestRet
    /\ gtrace' = <<>>
    /\ turn' = NoTurn
    /\ UNCHANGED <<hvars, kvars, guest_env, shared_output, shared_input>>

TakeOutcome ==
    /\ gret # NoGuestRet \/ fnobs # NoFnObs
    /\ gcall' = NoGuestCall
    /\ gret' = NoGuestRet
    /\ gtrace' = <<>>
    /\ fnobs' = NoFnObs
    /\ turn' = NoTurn
    /\ shared_input' = EmptyFrame
    /\ shared_output' = EmptyFrame
    /\ UNCHANGED <<hvars, kvars, guest_env>>

ProtocolNext ==
    \/ ServeGuestCall
    \/ RawCallFunctionOut
    \/ RawLogOut
    \/ HostWritesReturnValue
    \/ \E T \in Accessors : GetHostValueReturn(T)
    \/ EncodeReturnValue
    \/ DecodeReturnValue
    \/ CheckForGuestError
    \/ Hloutb
    \/ IncreaseNumRunsAt
    \/ OutbRoute
    \/ TakeOutcome

ProtocolSpec == ProtocolInit /\ [][ProtocolNext]_vars

\* ------------------------------------------------- hypervisor resources
\* Handles a C caller can pass where a handle of a kind is expected: the
\* registered ones of that kind, the empty one, and the one handed out last,
\* which may be of another kind, an error, or freed.
MaxHandles == 4
MaxSandboxes == 2
WrongHandles == {EmptyHandle, ctx.next - 1}
KvmHandles == ctx.kvms \cup WrongHandles
VmHandles == DOMAIN ctx.kvm_vmfds \cup WrongHandles
RegionHandles == DOMAIN ctx.kvm_user_mem_regions \cup WrongHandles
VcpuHandles == DOMAIN ctx.kvm_vcpufds \cup WrongHandles
RegsHandles == DOMAIN ctx.kvm_regs \cup WrongHandles
SRegsHandles == DOMAIN ctx.kvm_sregs \cup WrongHandles
RunMessageHandles == DOMAIN ctx.kvm_run_messages \cup WrongHandles
KnownHandles ==
    KvmHandles \cup VmHandles \cup RegionHandles \cup VcpuHandles \cup RegsHandles
    \cup SRegsHandles \cup RunMessageHandles \cup ctx.errs
\* Handles handed out in a run: MaxHandles, and one more where a VCPU is
\* brought up first.
HandleBudget == IF kmode = "vcpu" THEN MaxHandles + 1 ELSE MaxHandles
KNow == KState(ctx, hyp, unmapped, "none", EmptyHandle)
\* The variables of the sandbox state machine, of the guest and of the
\* HyperlightFunction, which the hypervisor operations leave alone.
svars == <<phase, uninit_host_functions, host_functions, stack_guard,
           executing_guest_call, needs_state_reset, num_runs, mem_cookie,
           shared_output, shared_input, poisoned, tpc, cur_call, ret, turn, gvars, hlfunc>>
KRet(fn, o, args) == [fn |-> fn, kind |-> o.kind, h |-> o.h, args |-> args]
\* The operation's effect on the context, the hypervisor and the record; at
\* most HandleBudget handles are handed out.
KTake(fn, o, args) ==
    /\ o.ctx.next <= HandleBudget + 1
    /\ ctx' = o.ctx
    /\ hyp' = o.hyp
    /\ unmapped' = o.unmapped
    /\ kret' = KRet(fn, o, args)
    /\ UNCHANGED <<svars, sandboxes, kmode>>

KvmInit ==
    /\ phase = "Uninitialized"
    /\ uninit_host_functions = EmptyMap
    /\ host_functions = EmptyMap
    /\ stack_guard = "unset"
    /\ executing_guest_call = FALSE
    /\ needs_state_reset = FALSE
    /\ num_runs = 0
    /\ mem_cookie = UninitStackCookie
    /\ shared_output = EmptyFrame
    /\ shared_input = EmptyFrame
    /\ poisoned = FALSE
    /\ tpc = [t \in HostThreads |-> "idle"]
    /\ cur_call = NoCall
    /\ ret = NoRet
    /\ turn = NoTurn
    /\ guest_env = NoGuestEnv
    /\ gcall = NoGuestCall
    /\ gret = NoGuestRet
    /\ gtrace = <<>>
    /\ fnobs = NoFnObs
    /\ ctx = NewContext
    /\ hyp = NewHypervisor
    /\ unmapped = {}
    /\ kret = NoKRet
    /\ sandboxes = {}
    /\ kmode \in {"capi", "sandbox", "vcpu"}
    /\ hlfunc = HyperlightFunction_new

KvmOpen ==
    /\ kmode = "capi"
    /\ \E ok \in BOOLEAN : \E o \in {kvm_open(KNow, ok)} : KTake("kvm_open", o, <<>>)

KvmCreateVm ==
    /\ kmode = "capi"
    /\ \E h \in KvmHandles, ok \in BOOLEAN :
         \E o \in {kvm_create_vm(KNow, h, ok)} : KTake("kvm_create_vm", o, <<h>>)

KvmCreateVcpu ==
    /\ kmode = "capi"
    /\ \E h \in VmHandles :
         \E o \in {kvm_create_vcpu(KNow, h)} : KTake("kvm_create_vcpu", o, <<h>>)

KvmMapVmMemoryRegion ==
    /\ kmode = "capi"
    /\ \E h \in VmHandles, r \in MapRequests :
         \E o \in {kvm_map_vm_memory_region(KNow, h, r[1], r[2], r[3])} :
            KTake("kvm_map_vm_memory_region", o, <<h>> \o r)

KvmUnmapVmMemoryRegion ==
    /\ kmode = "capi"
    /\ \E h \in VmHandles, rh \in RegionHandles :
         \E o \in {kvm_unmap_vm_memory_region(KNow, h, rh)} :
            KTake("kvm_unmap_vm_memory_region", o, <<h, rh>>)

HandleFree ==
    /\ kmode \in {"capi", "vcpu"}
    /\ \E h \in KnownHandles :
         \E o \in {handle_free(KNow, h)} :
            /\ o.kind = "Freed"
            /\ KTake("handle_free", o, <<h>>)

FreeHostMemory ==
    /\ kmode = "capi"
    /\ \E a \in HostAddrs \cap {r[2] : r \in MapRequests} :
         /\ hyp.mem[a] = "allocated"
         /\ \E o \in {free_host_memory(KNow, a)} : KTake("free", o, <<a>>)

\* A caller brings a VCPU up.
NewVcpu ==
    /\ kmode = "vcpu"
    /\ ctx.next = 1
    /\ \E o \in {new_vcpu(KNow)} : KTake("new_vcpu", o, <<>>)

KvmGetRegisters ==
    /\ kmode = "vcpu"
    /\ \E h \in VcpuHandles, ok \in BOOLEAN :
         \E o \in {kvm_get_registers(KNow, h, ok)} : KTake("kvm_get_registers", o, <<h>>)

KvmGetRegistersFromHandle ==
    /\ kmode = "vcpu"
    /\ \E h \in RegsHandles :
         \E o \in {kvm_get_registers_from_handle(KNow, h)} :
            KTake("kvm_get_registers_from_handle", o, <<h>>)

KvmGetSregisters ==
    /\ kmode = "vcpu"
    /\ \E h \in VcpuHandles, ok \in BOOLEAN :
         \E o \in {kvm_get_sregisters(KNow, h, ok)} : KTake("kvm_get_sregisters", o, <<h>>)

KvmSetRegisters ==
    /\ kmode = "vcpu"
    /\ \E h \in VcpuHandles, regs \in CallerRegs, ok \in BOOLEAN :
         \E o \in {kvm_set_registers(KNow, h, regs, ok)} :
            KTake("kvm_set_registers", o, <<h, regs>>)

KvmSetSregisters ==
    /\ kmode = "vcpu"
    /\ \E h \in VcpuHandles, sh \in SRegsHandles, csregs \in CallerCSRegs, ok \in BOOLEAN :
         \E o \in {kvm_set_sregisters(KNow, h, sh, csregs, ok)} :
            KTake("kvm_set_sregisters", o, <<h, sh, csregs>>)

KvmRunVcpu ==
    /\ kmode = "vcpu"
    /\ \E h \in VcpuHandles, ok \in BOOLEAN :
         \E o \in {kvm_run_vcpu(KNow, h, ok)} : KTake("kvm_run_vcpu", o, <<h>>)

KvmGetRunResultFromHandle ==
    /\ kmode = "vcpu"
    /\ \E h \in RunMessageHandles :
         \E o \in {kvm_get_run_result_from_handle(KNow, h)} :
            KTake("kvm_get_run_result_from_handle", o, <<h>>)

\* A sandbox is created (new_uninitialized, evolve).
NewSandbox ==
    /\ kmode = "sandbox"
    /\ Cardinality(sandboxes) < MaxSandboxes
    /\ ctx.next <= 4 * MaxHandles
    /\ \E a \in HostAddrs :
         /\ \A s \in sandboxes : s.addr # a
         /\ \E o \in {new_sandbox(KNow, a)} :
              /\ ctx' = o.ctx
              /\ hyp' = o.hyp
              /\ unmapped' = o.unmapped
              /\ kret' = [fn |-> "new_sandbox", kind |-> o.kind, h |-> o.h.vcpu, args |-> <<a>>]
              /\ sandboxes' = sandboxes \cup {o.h}
    /\ UNCHANGED <<svars, kmode>>

\* A sandbox being dropped takes the next step of its teardown.
DropSandbox ==
    /\ kmode = "sandbox"
    /\ \E s \in sandboxes :
         \E o \in {drop_sandbox(KNow, s, s.dropped + 1)} :
            /\ ctx' = o.ctx
            /\ hyp' = o.hyp
            /\ unmapped' = o.unmapped
            /\ kret' = [fn |-> "drop", kind |-> o.kind, h |-> s.vcpu, args |-> <<s.addr>>]
            /\ sandboxes' = (sandboxes \ {s}) \cup
                    IF s.dropped + 1 = DropSteps THEN {}
                    ELSE {[s EXCEPT !.dropped = @ + 1]}
    /\ UNCHANGED <<svars, kmode>>

KvmNext ==
    \/ KvmOpen
    \/ KvmCreateVm
    \/ KvmCreateVcpu
    \/ KvmMapVmMemoryRegion
    \/ KvmUnmapVmMemoryRegion
    \/ HandleFree
    \/ FreeHostMemory
    \/ NewVcpu
    \/ KvmGetRegisters
    \/ KvmGetRegistersFromHandle
    \/ KvmGetSregisters
    \/ KvmSetRegisters
    \/ KvmSetSregisters
    \/ KvmRunVcpu
    \/ KvmGetRunResultFromHandle
    \/ NewSandbox
    \/ DropSandbox

KvmSpec == KvmInit /\ [][KvmNext]_vars

\* ------------------------------------- HyperlightFunction (func/mod.rs)
\* Host threads call call() on one HyperlightFunction or on clones of it,
\* which share the Arc and so the mutex and the closure.  The closure is a
\* FnMut that counts its runs in its captured state, reading the count and
\* then writing it back increased.
MaxCalls == 2
\* Everything but the HyperlightFunction.
nonhlfunc == <<hvars, gvars, shared_output, shared_input, turn, ctx, hyp, unmapped, kret,
           sandboxes, kmode>>
\* Thread t is executing the closure, or is inside it waiting.
InClosure(t) == hlfunc.pc[t] \in {"read", "write", "return", "nested_locking"}

\* Thread t enters call(args).
HfCall(t) ==
    /\ hlfunc.pc[t] = "idle"
    /\ hlfunc.captured < MaxCalls
    /\ hlfunc' = [hlfunc EXCEPT !.pc[t] = "locking"]
    /\ UNCHANGED nonhlfunc

\* self.0.lock().unwrap() returns in thread t, or panics on a poisoned mutex.
HfLock(t) ==
    /\ hlfunc.pc[t] \in {"locking", "nested_locking"}
    /\ lock(hlfunc.holder, t)
    /\ hlfunc' = IF hlfunc.poisoned THEN [hlfunc EXCEPT !.pc[t] = "panicked"]
             ELSE [hlfunc EXCEPT !.holder = t, !.pc[t] = "read", !.tmp[t] = 0]
    /\ UNCHANGED nonhlfunc

\* f(args): the closure reads its captured state.
HfClosureRead(t) ==
    /\ hlfunc.pc[t] = "read"
    /\ hlfunc' = [hlfunc EXCEPT !.tmp[t] = hlfunc.captured, !.pc[t] = "write"]
    /\ UNCHANGED nonhlfunc

\* f(args): the closure writes its captured state and returns.
HfClosureWrite(t) ==
    /\ hlfunc.pc[t] = "write"
    /\ hlfunc' = [hlfunc EXCEPT !.captured = hlfunc.tmp[t] + 1, !.pc[t] = "return"]
    /\ UNCHANGED nonhlfunc

\* f(args): the closure invokes call() on the HyperlightFunction it is the
\* closure of.
HfClosureCallsItself(t) ==
    /\ hlfunc.pc[t] = "read"
    /\ hlfunc' = [hlfunc EXCEPT !.pc[t] = "nested_locking"]
    /\ UNCHANGED nonhlfunc

\* f(args) panics: the guard is dropped while unwinding, which poisons the
\* mutex and releases it.
HfClosurePanics(t) ==
    /\ hlfunc.pc[t] = "write"
    /\ hlfunc' = [hlfunc EXCEPT !.poisoned = TRUE, !.pc[t] = "panicked",
                        !.holder = IF @ = t THEN "none" ELSE @]
    /\ UNCHANGED nonhlfunc

\* call() returns: the guard is dropped and the mutex released.
HfReturn(t) ==
    /\ hlfunc.pc[t] = "return"
    /\ hlfunc' = [hlfunc EXCEPT !.pc[t] = "idle", !.holder = IF @ = t THEN "none" ELSE @]
    /\ UNCHANGED nonhlfunc

FuncNext ==
    \E t \in Callers :
        \/ HfCall(t)
        \/ HfLock(t)
        \/ HfClosureRead(t)
        \/ HfClosureWrite(t)
        \/ HfClosureCallsItself(t)
        \/ HfClosurePanics(t)
        \/ HfReturn(t)

FuncSpec == Init /\ [][FuncNext]_vars

\* ------------------------------------------------------------ properties
Ops(ev) == [i \in 1..Len(ev) |-> ev[i].op]
Count(ev, op) == Cardinality({i \in 1..Len(ev) : ev[i].op = op})
\* The parameter list a frame carries, an absent list read as the empty one.
DecodedArgs(f) == IF f.parameters.some THEN f.parameters.v ELSE <<>>
\* The frame names a registered function and agrees with its definition.
AgreesWithRegistry(f) ==
    /\ f.function_name \in DOMAIN host_functions
    /\ Len(DecodedArgs(f)) = Len(host_functions[f.function_name].parameter_types)
    /\ \A i \in 1..Len(DecodedArgs(f)) :
         DecodedArgs(f)[i].tag = host_functions[f.function_name].parameter_types[i]
CallFunctionTurn == turn.port = PortCallFunction /\ turn.result # "none"

\* C1 as stated: every port-101 exit performs exactly one read, one handler
\* invocation and one write, in this order, and ends Ok after the write.
C1_EveryExitReadsInvokesWrites ==
    CallFunctionTurn =>
        /\ Count(turn.events, "read") = 1
        /\ Count(turn.events, "handler") = 1
        /\ Count(turn.events, "write") = 1
        /\ SelectSeq(Ops(turn.events), LAMBDA o : o # "call") = <<"read", "handler", "write">>

\* C1 amended: on a port-101 exit handle_outb reads the FunctionCall once,
\* then calls the named host function at most once with the decoded
\* parameters (an absent list as the empty list), then writes at most once,
\* each step only after the earlier ones succeeded; it returns Ok exactly
\* when its last step was the write of the response into shared input; and
\* when the call agrees with the registry and no step fails, exactly one
\* handler invocation happens and what is written is that handler's return.
C1_CallFunctionTurnOrder ==
    CallFunctionTurn =>
        LET ev == turn.events
            n == Len(ev)
        IN
        /\ Ops(ev) \in {<<"read">>, <<"read", "call">>, <<"read", "call", "handler">>,
                        <<"read", "call", "write">>,
                        <<"read", "call", "handler", "write">>}
        /\ n >= 2 => /\ ev[2].name = shared_output.function_name
                     /\ ev[2].args = DecodedArgs(shared_output)
        /\ (n >= 3 /\ ev[3].op = "handler") =>
                     /\ ev[3].name = ev[2].name
                     /\ ev[3].args = ev[2].args
        /\ (turn.result = "Ok") = (ev[n].op = "write")
        /\ turn.result = "Ok" => shared_input = ReturnValueFrame(ev[n].val)
        /\ n = 4 => ev[3].ok /\ ev[4].val = ev[3].val
        /\ (turn.result = "Ok" /\ AgreesWithRegistry(shared_output)) => n = 4

\* C1 witness: a call with an absent parameter list ran its handler and the
\* response was written.
C1_Witness ==
    /\ CallFunctionTurn
    /\ turn.result = "Ok"
    /\ shared_output.parameters = NoneParams
    /\ Len(turn.events) = 4
    /\ turn.events[3].args = <<>>

\* A host call decoded on a port-101 turn that disagrees with the registry.
DisagreeingCall ==
    /\ CallFunctionTurn
    /\ shared_output.frame = "FunctionCall"
    /\ shared_output.kind = "Host"
    /\ ~AgreesWithRegistry(shared_output)
\* The GuestError code that matches the frame's disagreement.
MatchingCode(f) ==
    IF f.function_name \notin DOMAIN host_functions THEN "GuestFunctionNotFound"
    ELSE IF Len(DecodedArgs(f)) # Len(host_functions[f.function_name].parameter_types)
         THEN "GuestFunctionIncorrectNumberOfParameters"
    ELSE "GuestFunctionParameterTypeMismatch"

\* C2: a port-101 call whose name is not registered, or whose parameter
\* count or types disagree with the registered definition, runs no handler;
\* a handler that ran was registered under the called name and got
\* parameters of its declared types.
C2_NoHandlerOnDisagreement ==
    /\ DisagreeingCall => Count(turn.events, "handler") = 0
    /\ (CallFunctionTurn /\ Count(turn.events, "handler") > 0) =>
          AgreesWithRegistry(shared_output)

\* C2 witness: a call of a registered function with the right number of
\* parameters but a wrong type was dispatched.
C2_Witness ==
    /\ DisagreeingCall
    /\ MatchingCode(shared_output) = "GuestFunctionParameterTypeMismatch"

C5_AbortYieldsGuestAborted ==
    (turn.port = PortAbort /\ turn.result # "none") =>
        /\ ret.op = "call_guest_function"
        /\ ret.res = "GuestAborted"
        /\ ret.code = turn.byte
        /\ turn.events = <<>>

\* C6: an OUT on a port other than 99, 101 and 102 is ignored: handle_outb
\* returns normally, touches nothing, and the VCPU is resumed.
C6_UnknownPortIgnored ==
    (turn.result # "none" /\ turn.port \notin {PortLog, PortCallFunction, PortAbort}) =>
        /\ turn.result = "Ok"
        /\ turn.events = <<>>
        /\ mem_cookie = UninitStackCookie =>
              /\ turn.verdict = "Resume"
              /\ \E t \in HostThreads : tpc[t] = "running"

\* The host threads that hold the in-flight-call token.
Holders == {t \in HostThreads : tpc[t] # "idle"}

\* C7: at most one call_guest_function holds executing_guest_call at a time;
\* the flag is set exactly while a call holds it; a caller that finds it set
\* returns GuestCallAlreadyInProgress at once, holding nothing; and the flag
\* is false again when the winning call has returned.
C7_SingleFlight ==
    /\ Cardinality(Holders) <= 1
    /\ executing_guest_call = (Holders # {})
    /\ ret.res = "GuestCallAlreadyInProgress" =>
          /\ ret.thread \notin Holders
          /\ \E h \in Holders : h # ret.thread
    /\ (ret.op = "call_guest_function"
        /\ ret.res \notin {"GuestCallAlreadyInProgress", "Panic"}) =>
          ~executing_guest_call

\* C7 witness: one thread is running the guest and the other was just
\* refused with GuestCallAlreadyInProgress.
C7_Witness ==
    /\ ret.res = "GuestCallAlreadyInProgress"
    /\ \E h \in Holders : tpc[h] = "running"

\* C8: needs_state_reset is true once a guest call has started; it is
\* cleared only by the step that ends a call with Ok for a caller who opted
\* into reset, together with the snapshot restore, and that step does clear
\* it; a call that ends in failure leaves it true.
C8_NeedsStateResetPolicy ==
    [][/\ (\E t \in HostThreads : tpc[t] = "entered" /\ tpc'[t] = "running") =>
             needs_state_reset'
       /\ (needs_state_reset /\ ~needs_state_reset') =>
             /\ \E t \in HostThreads : tpc[t] = "running" /\ tpc'[t] = "idle"
             /\ ret'.res = "Ok"
             /\ cur_call.reset
             /\ mem_cookie' = Snapshot.mem_cookie
             /\ shared_input' = Snapshot.shared_input
             /\ shared_output' = Snapshot.shared_output
       /\ (\E t \in HostThreads : tpc[t] = "running" /\ tpc'[t] = "idle") =>
             needs_state_reset' = ~(ret'.res = "Ok" /\ cur_call.reset)
      ]_vars

\* C8 witness: a call just succeeded with reset opted in and the flag is clear.
C8_Witness ==
    /\ ret.op = "call_guest_function"
    /\ ret.res = "Ok"
    /\ ~needs_state_reset
    /\ shared_input = Snapshot.shared_input

FatalErrors == {"StackOverflow", "GuestAborted", "GuestMemoryFault", "GuestCancelled"}

C10_RegistryFrozen ==
    /\ [](phase = "Initialized" =>
            /\ host_functions = uninit_host_functions
            /\ ret.op = "register_host_function" => ret.res = "NotUninitialized")
    /\ [][phase = "Initialized" =>
            /\ host_functions' = host_functions
            /\ uninit_host_functions' = uninit_host_functions]_vars

\* C10 witness: an initialized Sandbox with both functions registered has
\* just refused a registration.
C10_Witness ==
    /\ phase = "Initialized"
    /\ DOMAIN host_functions = HostFunctionNames
    /\ ret.res = "NotUninitialized"

\* ------------------------------------------- properties of the call protocol
\* The steps of call_host_function among what the guest did.
IsCallStep(e) == e.op \in {"validate", "serialize", "push", "out"}
CallSteps == Ops(SelectSeq(gtrace, IsCallStep))
\* call_host_function was entered while the guest served the call.
HostCallEntered == gcall # NoGuestCall /\ Count(gtrace, "validate") > 0

C12_OnlyHostKindDispatched ==
    /\ \A i \in 1..Len(gtrace) : gtrace[i].op = "push" => gtrace[i].frame.kind = "Host"
    /\ (turn.port = PortCallFunction /\ Count(turn.events, "call") > 0) =>
          shared_output.kind = "Host"
    /\ (turn.port = PortCallFunction /\ shared_output.frame = "FunctionCall"
        /\ shared_output.kind = "Guest") =>
          /\ Count(turn.events, "call") = 0
          /\ Count(turn.events, "handler") = 0

\* C12 witness: a frame of kind Guest naming a registered host function was in
\* shared output at a port-101 exit.
C12_Witness ==
    /\ turn.port = PortCallFunction
    /\ shared_output.frame = "FunctionCall"
    /\ shared_output.kind = "Guest"
    /\ shared_output.function_name \in DOMAIN host_functions

\* The discriminator each accessor expects.
AccessorTag(T) ==
    CASE T = "void" -> "Void"
      [] T = "int" -> "Int"
      [] T = "uint" -> "UInt"
      [] T = "long" -> "Long"
      [] T = "ulong" -> "ULong"
      [] T = "vecbytes" -> "VecBytes"
\* An accessor popped a ReturnValue from shared input.
AccessorPopped == fnobs.fn = "get_host_value_return_as" /\ fnobs.value.frame = "ReturnValue"

\* C13: an accessor get_host_value_return_as_T that pops a ReturnValue returns
\* Ok exactly when the value's discriminator is T, and then with the value's
\* payload; for every other discriminator it returns Err(GuestError).  The
\* value is gone from shared input afterwards.
C13_AccessorMatchesDiscriminator ==
    AccessorPopped =>
        /\ (fnobs.out.status = "Ok") <=> (fnobs.value.tag = AccessorTag(fnobs.type))
        /\ fnobs.out.status = "Ok" =>
              fnobs.out.v = (IF fnobs.type = "void" THEN Unit ELSE fnobs.value.v)
        /\ fnobs.out.status # "Ok" =>
              /\ fnobs.out.status = "Err"
              /\ fnobs.out.code = "GuestError"
        /\ shared_input = EmptyFrame

\* C13 witness: the int accessor popped a Long.
C13_Witness ==
    /\ AccessorPopped
    /\ fnobs.type = "int"
    /\ fnobs.value.tag = "Long"
    /\ fnobs.out.status = "Err"

\* C14: for every supported return type T and value x of T, the discriminator
\* of x.get_hyperlight_value() is T::get_hyperlight_type(), and get_inner of
\* that value is Ok(x).
C14_ReturnValueRoundTrip ==
    fnobs.fn = "get_hyperlight_value" =>
        /\ fnobs.value.tag = get_hyperlight_type(fnobs.type)
        /\ fnobs.out.ok
        /\ fnobs.out.v = fnobs.arg

\* C14 witness: the i64 value -1 was encoded and decoded.
C14_Witness ==
    /\ fnobs.fn = "get_hyperlight_value"
    /\ fnobs.type = "i64"
    /\ fnobs.arg = -1
    /\ fnobs.value = RV("Long", -1)

\* C15: get_inner of a supported return type T on a ReturnValue whose
\* discriminator is not T's fails with ReturnValueConversionFailure.
C15_GetInnerRejectsOtherTypes ==
    (fnobs.fn = "get_inner" /\ fnobs.value.tag # get_hyperlight_type(fnobs.type)) =>
        /\ ~fnobs.out.ok
        /\ fnobs.out.err = "ReturnValueConversionFailure"

\* C15 witness: i32::get_inner was applied to a Long.
C15_Witness ==
    /\ fnobs.fn = "get_inner"
    /\ fnobs.type = "i32"
    /\ fnobs.value.tag = "Long"
    /\ ~fnobs.out.ok

\* The guest served a call to a function that hyperlight_main registers.
ServedRegistered == gcall # NoGuestCall /\ gcall.function_name \in RegisteredNames
\* The parameter list of the call served: its types, and whether it has the
\* declared number of parameters.
CallTypes == [i \in 1..Len(gcall.parameters.v) |-> gcall.parameters.v[i].tag]
DeclaredTypes == hyperlight_main(gcall.function_name).parameter_types
RightCount == gcall.parameters.some /\ Len(gcall.parameters.v) = Len(DeclaredTypes)

\* C16: for every function hyperlight_main registers and every call to it
\* that returns Ok, the discriminator of the returned value is the
\* return_type declared in its GuestFunctionDefinition.
C16_ReturnMatchesDeclaredType ==
    (ServedRegistered /\ gret.status = "Ok") =>
        gret.val.tag = hyperlight_main(gcall.function_name).return_type

\* C17: Echo called with the single parameter String(s) returns String(s)
\* and does nothing else: no step of a host call, no OUT, no exit seen by
\* the host, shared regions untouched.
C17_EchoReturnsItsArgument ==
    (ServedRegistered /\ gcall.function_name = "Echo" /\ gcall.parameters.some
     /\ CallTypes = <<"String">>) =>
        /\ gret.status = "Ok"
        /\ gret.val.tag = "String"
        /\ gret.val.v = gcall.parameters.v[1].v
        /\ gtrace = <<>>
        /\ turn = NoTurn
        /\ shared_output = EmptyFrame

\* C17 witness: Echo was called with "hi" and returned.
C17_Witness ==
    /\ ServedRegistered
    /\ gcall.function_name = "Echo"
    /\ gcall.parameters = SomeParams(<<PV("String", <<"h", "i">>)>>)
    /\ gret.status = "Ok"

\* The print functions of the simpleguest.
PrintFunctions ==
    {"PrintOutput", "PrintTwoArgs", "PrintThreeArgs", "PrintFourArgs", "PrintFiveArgs",
     "PrintSixArgs", "PrintSevenArgs", "PrintEightArgs", "PrintNineArgs", "PrintTenArgs"}
\* A print function was called with parameters of the declared types.
PrintCall ==
    /\ ServedRegistered
    /\ gcall.function_name \in PrintFunctions
    /\ RightCount
    /\ CallTypes = DeclaredTypes
\* " argI:<aI>" for I = from .. n of the call served.
RECURSIVE ArgsFrom(_)
ArgsFrom(i) ==
    IF i > Len(gcall.parameters.v) THEN <<>>
    ELSE <<(<<" arg2:", " arg3:", " arg4:", " arg5:", " arg6:", " arg7:", " arg8:",
              " arg9:", " arg10:">>)[i - 1]>>
         \o Display(gcall.parameters.v[i]) \o ArgsFrom(i + 1)
\* The message the call served is to print.
ExpectedMessage ==
    IF gcall.function_name = "PrintOutput" THEN gcall.parameters.v[1].v
    ELSE <<"Message: arg1:">> \o Display(gcall.parameters.v[1]) \o ArgsFrom(2) \o <<".">>
\* The frame of the host call HostPrint(message) -> Int.
HostPrintFrame(message) ==
    [frame |-> "FunctionCall", function_name |-> "HostPrint",
     parameters |-> [some |-> TRUE, v |-> <<[tag |-> "String", v |-> message]>>],
     kind |-> "Host", tag |-> "Int", v |-> 0, code |-> "NoError"]
\* The frames the guest took from shared input while serving the call.
Popped == SelectSeq(gtrace, LAMBDA e : e.op = "pop")
\* The host call went out, the host resumed the guest, and what the guest
\* then found in shared input was an Int.
HostReturnedInt ==
    /\ Count(gtrace, "out") = 1
    /\ turn.verdict = "Resume"
    /\ Len(Popped) = 1
    /\ Popped[1].frame.frame = "ReturnValue"
    /\ Popped[1].frame.tag = "Int"

\* C18 as stated: a print function called with correctly typed parameters
\* issues exactly one host call, HostPrint(formatted message), and returns
\* as Int the Int the host returned.
C18_ExactlyOneHostCall ==
    PrintCall =>
        /\ Count(gtrace, "out") = 1
        /\ \A i \in 1..Len(gtrace) :
              gtrace[i].op = "out" =>
                  /\ gtrace[i].port = PortCallFunction
                  /\ gtrace[i].frame = HostPrintFrame(ExpectedMessage)
        /\ HostReturnedInt
        /\ gret.status = "Ok"
        /\ gret.val.tag = "Int"
        /\ gret.val.v = Popped[1].frame.v

\* C18 (amended): a print function called with correctly typed parameters
\* enters call_host_function once, for HostPrint with the single String
\* parameter holding the formatted message and return type Int, and issues
\* at most one OUT on port 101, with that frame; it issues none exactly when
\* call_host_function failed before the OUT, and then returns that error.
\* When the host returned an Int the function returns exactly that Int, and
\* it returns Ok in no other case.
C18_PrintCallsHostPrintOnce ==
    PrintCall =>
        /\ Count(gtrace, "validate") = 1
        /\ Count(gtrace, "out") <= 1
        /\ \A i \in 1..Len(gtrace) :
              gtrace[i].op \in {"validate", "serialize", "push", "out"} =>
                  gtrace[i].frame = HostPrintFrame(ExpectedMessage)
        /\ \A i \in 1..Len(gtrace) :
              gtrace[i].op = "out" => gtrace[i].port = PortCallFunction /\ gtrace[i].value = 0
        /\ Count(gtrace, "out") = 0 =>
              /\ gret.status = "Err"
              /\ turn = NoTurn
        /\ HostReturnedInt =>
              /\ gret.status = "Ok"
              /\ gret.val.tag = "Int"
              /\ gret.val.v = Popped[1].frame.v
        /\ gret.status = "Ok" => HostReturnedInt
        /\ (gcall.function_name = "PrintTwoArgs"
            /\ gcall.parameters.v = <<[tag |-> "String", v |-> <<"x">>], [tag |-> "Int", v |-> 42]>>) =>
              gtrace[1].frame.parameters.v[1].v = <<"Message: arg1:", "x", " arg2:", "4", "2", ".">>

\* C18 witness: PrintTwoArgs("x", 42) printed "Message: arg1:x arg2:42."
\* through HostPrint and returned the Int 3 that the host returned.
C18_Witness ==
    /\ PrintCall
    /\ gcall.function_name = "PrintTwoArgs"
    /\ gcall.parameters.v = <<[tag |-> "String", v |-> <<"x">>], [tag |-> "Int", v |-> 42]>>
    /\ HostReturnedInt
    /\ shared_output.parameters.v[1].v = <<"Message: arg1:", "x", " arg2:", "4", "2", ".">>
    /\ gret.status = "Ok"
    /\ gret.val.v = 3

\* A registered function was called with the declared number of parameters,
\* at least one of them of another type than declared.
WrongTypeCall == ServedRegistered /\ RightCount /\ CallTypes # DeclaredTypes
\* A registered function was called with another number of parameters than
\* declared, or with no parameter list at all.
WrongCountCall == ServedRegistered /\ ~RightCount
\* The code for a wrong number of parameters: the name in the error model,
\* and the name of the ErrorCode variant that log_message uses for it.
IncorrectNumberCodes ==
    {"GuestFunctionIncorrectNumberOfParameters", "GuestFunctionIncorrecNoOfParameters"}

\* C19: a simpleguest function called with the right number of parameters,
\* one of them of the wrong type, returns
\* Err(GuestFunctionParameterTypeMismatch) and does nothing else: no host
\* call, no abort, no panic, no exit seen by the host.
C19_WrongTypeIsTypeMismatch ==
    WrongTypeCall =>
        /\ gret.status = "Err"
        /\ gret.code = "GuestFunctionParameterTypeMismatch"
        /\ gtrace = <<>>
        /\ turn = NoTurn

\* C20: a simpleguest function called with a number of parameters other than
\* the one it expects, or with an absent parameter list, returns the error
\* for an incorrect number of parameters, and the guest goes on.
C20_WrongCountIsIncorrectNumber ==
    WrongCountCall =>
        /\ gret.status = "Err"
        /\ gret.code \in IncorrectNumberCodes

\* The guest was handed a call to a name that is not registered, which goes
\* to guest_dispatch_function.
ServedUnregistered == gcall # NoGuestCall /\ gcall.function_name \notin RegisteredNames

\* C21: guest_dispatch_function returns, for every FunctionCall it is handed,
\* Err(GuestFunctionNotFound) with the call's function_name as the message;
\* it never returns Ok and issues no host call.
C21_DispatchFallbackNotFound ==
    ServedUnregistered =>
        /\ gret.status = "Err"
        /\ gret.code = "GuestFunctionNotFound"
        /\ gret.message = gcall.function_name
        /\ gtrace = <<>>
        /\ turn = NoTurn
        /\ shared_output = EmptyFrame

\* C21 witness: a call to "echo", with a parameter, was answered.
C21_Witness ==
    /\ ServedUnregistered
    /\ gcall.function_name = "echo"
    /\ gcall.parameters.some
    /\ Len(gcall.parameters.v) = 1
    /\ gret.status = "Err"

\* C22: guest and host agree on the ports: the guest's OutBAction values are
\* 99 = Log, 101 = CallFunction, 102 = Abort and the host reads them the
\* same way; every OUT that call_host_function issues is on port 101; at an
\* exit on port 99 the host only reads a log record from shared output: it
\* decodes no FunctionCall, looks up and runs no handler, and leaves shared
\* input as it was.
C22_PortMapAgreed ==
    /\ PortLog = 99 /\ PortCallFunction = 101 /\ PortAbort = 102
    /\ OutBAction(99) = "Log" /\ OutBAction(101) = "CallFunction" /\ OutBAction(102) = "Abort"
    /\ \A i \in 2..Len(gtrace) :
          (gtrace[i].op = "out" /\ gtrace[i - 1].op = "push") => gtrace[i].port = 101
    /\ turn.port = 99 =>
          /\ Ops(turn.events) = <<"readlog">>
          /\ shared_input = EmptyFrame
          /\ turn.result = "Ok" <=> shared_output.frame = "LogData"

\* C22 witness: a log record was in shared output at an exit on port 99 and
\* the host resumed the guest.
C22_Witness ==
    /\ turn.port = 99
    /\ shared_output.frame = "LogData"
    /\ turn.result = "Ok"
    /\ turn.verdict = "Resume"

\* ---- hypervisor resources (KvmSpec)
\* The VM a handle refers to in the context at hand.
VmOf(h) == ctx.kvm_vmfds[h]
\* Every VCPU that still exists belongs to a VM that still exists.
NoVmDestroyedBeforeItsVcpu ==
    \A c \in DOMAIN hyp.vcpus : hyp.vcpus[c].alive => hyp.vms[hyp.vcpus[c].vm].alive
\* Whatever is mapped into a VM, and was not unmapped from it, is allocated.
NoRegionFreedWhileMapped ==
    \A v \in DOMAIN hyp.vms : \A m \in hyp.vms[v].mappings :
        hyp.mem[m.userspace_addr] = "allocated"
TeardownOrdered == NoVmDestroyedBeforeItsVcpu /\ NoRegionFreedWhileMapped

C24_SecondUnmapUnmapsNothing ==
    [][(/\ kret'.fn = "kvm_unmap_vm_memory_region"
        /\ kret'.args[2] \in unmapped)
       => (kret'.kind = "Err" /\ hyp'.vms = hyp.vms)]_vars

\* C25: once kvm_create_vcpu has succeeded for a VM handle, every further
\* kvm_create_vcpu on that handle returns an error handle and creates no VCPU.
C25_AtMostOneVcpuPerVm ==
    [][(/\ kret'.fn = "kvm_create_vcpu"
        /\ kret'.args[1] \in DOMAIN ctx.kvm_vmfds
        /\ \E c \in DOMAIN hyp.vcpus : hyp.vcpus[c].vm = VmOf(kret'.args[1]))
       => (/\ kret'.kind = "Err"
           /\ kret'.h \in ctx'.errs
           /\ hyp'.vcpus = hyp.vcpus
           /\ ctx'.kvm_vcpufds = ctx.kvm_vcpufds)]_vars

\* A second kvm_create_vcpu on a VM was refused, the first VCPU being kept or
\* already freed.
C25_Witness ==
    /\ kmode = "capi"
    /\ kret.fn = "kvm_create_vcpu"
    /\ kret.kind = "Err"
    /\ kret.args[1] \in DOMAIN ctx.kvm_vmfds
    /\ \E c \in DOMAIN hyp.vcpus : hyp.vcpus[c].vm = VmOf(kret.args[1]) /\ ~hyp.vcpus[c].alive

\* The request <<h, guest_phys_addr, userspace_addr, mem_size>> is one that
\* has to be rejected for the VM.
Unaligned(args) == args[4] % PAGE_SIZE # 0 \/ args[3] % PAGE_SIZE # 0
OverlapsInstalled(vm, args) ==
    \E m \in vm.mappings : \E a \in {args[2], m.guest_phys_addr} :
        /\ args[2] <= a /\ a < args[2] + args[4]
        /\ m.guest_phys_addr <= a /\ a < m.guest_phys_addr + m.memory_size

\* C26: kvm_map_vm_memory_region returns an error handle and installs no
\* mapping when the size is not a multiple of the page size, the host address
\* is not page-aligned, or the guest-physical range overlaps a mapping
\* installed in the same VM.
C26_MapRejectsBadRequests ==
    [][(/\ kret'.fn = "kvm_map_vm_memory_region"
        /\ kret'.args[1] \in DOMAIN ctx.kvm_vmfds
        /\ \/ Unaligned(kret'.args)
           \/ OverlapsInstalled(hyp.vms[VmOf(kret'.args[1])], kret'.args))
       => (/\ kret'.kind = "Err"
           /\ kret'.h \in ctx'.errs
           /\ hyp'.vms = hyp.vms
           /\ ctx'.kvm_user_mem_regions = ctx.kvm_user_mem_regions)]_vars

\* A well-aligned request was rejected because it overlaps an installed
\* mapping that starts at another address.
C26_Witness ==
    /\ kmode = "capi"
    /\ kret.fn = "kvm_map_vm_memory_region"
    /\ kret.kind = "Err"
    /\ kret.args[1] \in DOMAIN ctx.kvm_vmfds
    /\ ~Unaligned(kret.args)
    /\ \E m \in hyp.vms[VmOf(kret.args[1])].mappings :
          m.guest_phys_addr # kret.args[2] /\ OverlapsInstalled(hyp.vms[VmOf(kret.args[1])], kret.args)

\* C27: check_for_guest_error returns Ok exactly when the guest error code
\* read is NoError; for every other code, OutbError and StackOverflow
\* included, it returns Err.
C27_OkIffNoError ==
    (fnobs.fn = "check_for_guest_error" /\ fnobs.arg.read_ok)
        => (fnobs.out.ok <=> fnobs.type = "NoError")

\* C28: entered with the port in the low 16 bits of rcx and the value in the
\* low 8 bits of rdx, hloutb executes OUT with dx equal to that port and al
\* equal to that value, whatever the registers hold above them: for the
\* calls made, and once over all ports 0..65535 and all values 0..255.
C28_TrampolineOutputsPortAndValue ==
    /\ fnobs.fn = "hloutb"
        => (fnobs.out.port = fnobs.arg.rcx % 65536 /\ fnobs.out.value = fnobs.arg.rdx % 256)
    /\ (fnobs.fn = "hloutb" /\ fnobs.arg = Registers(77, 0, 0))
        => /\ \A port \in 0..65535 :
                hloutb(Registers(77, 65536 + port, 511)) = [port |-> port, value |-> 255]
           /\ \A value \in 0..255 :
                hloutb(Registers(77, 65536 + PortCallFunction, 256 + value))
                    = [port |-> PortCallFunction, value |-> value]

\* The largest port with a value that differs from the port's low byte, the
\* registers holding more than the arguments.
C28_Witness ==
    /\ fnobs.fn = "hloutb"
    /\ fnobs.out = [port |-> 65535, value |-> 128]
    /\ fnobs.arg.rcx > 65535
    /\ fnobs.arg.rdx > 255

\* The discriminators of the return-value variant.
Discriminators == {"Void", "String", "Int", "Long", "UInt", "ULong", "Bool", "VecBytes"}

\* C30: every discriminator of the return-value variant is supported on both
\* sides: a host SupportedReturnType implementation produces it and a guest
\* get_host_value_return_as_<T> accessor consumes it.
C30_DiscriminatorsSupportedOnBothSides ==
    (shared_input.frame = "ReturnValue" /\ shared_input.tag \in Discriminators)
        => /\ \E T \in SupportedReturnTypes : get_hyperlight_type(T) = shared_input.tag
           /\ \E A \in Accessors : get_host_value_return_as(A, shared_input).status = "Ok"

\* ---- cancellation (Spec)
\* The running call is a call of Spin; it ends in this step.
SpinRunning == cur_call.function = "Spin" /\ tpc[cur_call.thread] = "running"
SpinEnds == SpinRunning /\ tpc'[cur_call.thread] # "running"
\* While it runs, Spin writes nothing and no exit of it is dispatched.
SpinStaysSilent ==
    (SpinRunning /\ ~SpinEnds)
        => (turn' = NoTurn /\ shared_output' = shared_output /\ mem_cookie' = mem_cookie)
\* The call ends cancelled: the VCPU was signalled, the caller receives
\* GuestCancelled and the sandbox is poisoned.
EndsCancelled ==
    /\ cur_call.cancel
    /\ ret' = Ret("call_guest_function", cur_call.thread, "GuestCancelled")
    /\ poisoned'

C31_StackGuardFixed ==
    /\ [](phase = "Initialized" =>
            /\ stack_guard = UninitStackCookie
            /\ get_stack_cookie(stack_guard, mem_cookie) = UninitStackCookie)
    /\ [][phase = "Initialized" => stack_guard' = stack_guard]_vars

\* The guest has overwritten the cookie in its memory, handle_outb has run,
\* the call has ended and check_for_guest_error was called.
C31_Witness ==
    /\ phase = "Initialized"
    /\ mem_cookie = CookieSmashed
    /\ ret.op = "check_for_guest_error"
    /\ needs_state_reset
    /\ num_runs > 0
    /\ get_stack_cookie(stack_guard, mem_cookie) = UninitStackCookie

\* C32: a port-101 turn in which reading the FunctionCall from shared output
\* fails, or in which the invocation of the host function returns an error
\* (the handler fails, or returns a value of another type than registered),
\* makes handle_outb return that error, and shared input is after the turn
\* exactly what it was before: no response is written.
C32_FailedCallWritesNothing ==
    [][(/\ turn'.result # "none"
        /\ turn'.port = PortCallFunction
        /\ \/ ~get_host_function_call(shared_output).ok
           \/ \E i \in 1..Len(turn'.events) :
                 /\ turn'.events[i].op = "handler"
                 /\ \/ ~turn'.events[i].ok
                    \/ turn'.events[i].val.tag
                         # host_functions[turn'.events[i].name].return_type)
       => /\ turn'.result = "Err"
          /\ turn'.err = (IF ~get_host_function_call(shared_output).ok
                          THEN get_host_function_call(shared_output).err
                          ELSE IF \E i \in 1..Len(turn'.events) :
                                     turn'.events[i].op = "handler" /\ ~turn'.events[i].ok
                               THEN "HandlerError"
                               ELSE "ReturnValueConversionFailure")
          /\ \A i \in 1..Len(turn'.events) : turn'.events[i].op # "write"
          /\ shared_input' = shared_input]_vars

\* A handler was run on a validated call and returned an error; the call
\* ended with a host error and shared input holds no return value.
C32_Witness ==
    /\ turn.port = PortCallFunction
    /\ turn.result = "Err"
    /\ turn.err = "HandlerError"
    /\ \E i \in 1..Len(turn.events) : turn.events[i].op = "handler" /\ ~turn.events[i].ok
    /\ turn.verdict = "HostError"
    /\ shared_input.frame # "ReturnValue"

\* C33: every increase_num_runs call returns with num_runs one larger than
\* before, so that num_runs never decreases and counts the calls made.
C33_EachCallAddsOne ==
    fnobs.fn = "increase_num_runs" =>
        /\ fnobs.out.status = "Ok"
        /\ fnobs.out.v > fnobs.arg
        /\ fnobs.arg < I32_MAX => fnobs.out.v = fnobs.arg + 1

\* ---- the C API's handles (KvmSpec)
\* The resource tables of a context: everything but the errors.
Resources(c) ==
    <<c.kvms, c.kvm_vmfds, c.kvm_vcpufds, c.kvm_user_mem_regions, c.kvm_regs,
      c.kvm_sregs, c.kvm_run_messages>>

\* The call fn(args) passes, where a handle of a kind is expected, one that
\* is not registered under that kind in context c.
BadHandle(fn, args, c) ==
    CASE fn = "kvm_create_vm" -> args[1] \notin c.kvms
      [] fn \in {"kvm_create_vcpu", "kvm_map_vm_memory_region"} ->
            args[1] \notin DOMAIN c.kvm_vmfds
      [] fn = "kvm_unmap_vm_memory_region" ->
            args[1] \notin DOMAIN c.kvm_vmfds \/ args[2] \notin DOMAIN c.kvm_user_mem_regions
      [] fn \in {"kvm_get_registers", "kvm_get_sregisters", "kvm_set_registers",
                 "kvm_run_vcpu"} ->
            args[1] \notin DOMAIN c.kvm_vcpufds
      [] fn = "kvm_set_sregisters" ->
            args[1] \notin DOMAIN c.kvm_vcpufds \/ args[2] \notin DOMAIN c.kvm_sregs
      [] OTHER -> FALSE

\* C34: each of the nine operations that take a resource handle, called with
\* a handle that is not registered under the expected kind (empty, of
\* another kind, an error, or freed), returns the handle of a newly
\* registered error, and leaves the hypervisor and every resource table of
\* the context as they were.
C34_BadHandleRegistersErrorOnly ==
    [][BadHandle(kret'.fn, kret'.args, ctx)
       => /\ kret'.kind = "Err"
          /\ kret'.h = ctx.next
          /\ kret'.h \notin ctx.errs
          /\ ctx'.errs = ctx.errs \cup {kret'.h}
          /\ Resources(ctx') = Resources(ctx)
          /\ hyp' = hyp
          /\ unmapped' = unmapped]_vars

\* kvm_run_vcpu was called with the handle of a register bank where the
\* VCPU's is expected, while a VCPU is registered, and returned an error.
C34_Witness ==
    /\ kret.fn = "kvm_run_vcpu"
    /\ kret.kind = "Err"
    /\ kret.args[1] \in DOMAIN ctx.kvm_regs
    /\ kret.h \in ctx.errs
    /\ DOMAIN ctx.kvm_vcpufds # {}
    /\ ctx.kvm_run_messages = NoEntries

\* C35: kvm_set_sregisters leaves the banks stored in the context as they
\* were, whether it returns the empty handle or an error, and when it
\* succeeds the VCPU's bank has cs, cr0, cr3, cr4 and efer of the caller's
\* CSRegs and everything else as in the bank stored under sregs_hdl.
C35_SetSregistersMergesStoredBank ==
    [][kret'.fn = "kvm_set_sregisters"
       => /\ ctx'.kvm_sregs = ctx.kvm_sregs
          /\ kret'.kind \in {"Empty", "Err"}
          /\ kret'.kind = "Empty" =>
                LET bank == hyp'.vcpus[kret'.args[1]].sregs
                    stored == ctx.kvm_sregs[kret'.args[2]]
                    csregs == kret'.args[3]
                IN bank = SRegs(csregs.cs, csregs.cr0, csregs.cr3, csregs.cr4,
                                csregs.efer, stored.sregs)]_vars

\* The bank was read, the guest ran and changed it, and kvm_set_sregisters
\* then wrote the caller's five fields over the stored rest: the write took
\* the stored value, not the VCPU's, and the stored bank is still as read.
C35_Witness ==
    /\ kret.fn = "kvm_set_sregisters"
    /\ kret.kind = "Empty"
    /\ hyp.vcpus[kret.args[1]].regs.rip = 4100
    /\ hyp.vcpus[kret.args[1]].sregs = SRegs(8, 1, 2, 3, 4, 0)
    /\ ctx.kvm_sregs[kret.args[2]] = ResetSRegs

\* The table a _from_handle function reads.
FromHandleTable(fn, c) ==
    IF fn = "kvm_get_registers_from_handle" THEN c.kvm_regs ELSE c.kvm_run_messages
FromHandleFns == {"kvm_get_registers_from_handle", "kvm_get_run_result_from_handle"}

\* C36: kvm_get_registers_from_handle and kvm_get_run_result_from_handle
\* change nothing in the context: after a call that returned a value the
\* handle is still registered and the value returned is the one registered
\* under it, NULL is returned only for a handle that is not registered, a
\* registered value never changes, so that a repeated call returns the same
\* value, and an entry leaves its table only in a handle_free of its handle.
C36_FromHandleDoesNotConsume ==
    /\ [](kret.fn \in FromHandleFns =>
            IF kret.args[1] \in DOMAIN FromHandleTable(kret.fn, ctx)
            THEN kret.kind = "Value" /\ kret.h = FromHandleTable(kret.fn, ctx)[kret.args[1]]
            ELSE kret.kind = "Null")
    /\ [][/\ kret'.fn \in FromHandleFns => ctx' = ctx /\ hyp' = hyp
          /\ \A fn \in FromHandleFns :
               \A h \in DOMAIN FromHandleTable(fn, ctx) :
                  IF h \in DOMAIN FromHandleTable(fn, ctx')
                  THEN FromHandleTable(fn, ctx')[h] = FromHandleTable(fn, ctx)[h]
                  ELSE kret'.fn = "handle_free" /\ kret'.args = <<h>>]_vars

\* The run result was fetched from its handle after the registers had been
\* fetched from theirs and the guest had run on: both handles are still
\* registered, the registers' with the bank as it was read.
C36_Witness ==
    /\ kret.fn = "kvm_get_run_result_from_handle"
    /\ kret.kind = "Value"
    /\ kret.h = "Halt"
    /\ kret.args[1] \in DOMAIN ctx.kvm_run_messages
    /\ \E h \in DOMAIN ctx.kvm_regs :
          /\ ctx.kvm_regs[h] = ResetRegs
          /\ \E v \in DOMAIN hyp.vcpus : hyp.vcpus[v].regs # ResetRegs

\* ---- the guest's outb (ProtocolSpec)
\* The calls of outb that deliver the write.
Deliveries(steps) == SelectSeq(steps, LAMBDA e : e.callee # "check_for_host_error")

\* C37: outb(port, value) delivers the write through at most one mechanism,
\* chosen by fixed priority: hloutb when RUNNING_IN_HYPERLIGHT; otherwise,
\* when OUTB_PTR_WITH_CONTEXT is set, the callback with context if P_PEB is
\* set and nothing at all if it is not (OUTB_PTR is not tried); otherwise
\* OUTB_PTR when it is set; and check_for_host_error is the last call, made
\* exactly once, in every case.
C37_OutbOneMechanismByPriority ==
    fnobs.fn = "outb" =>
        LET st == fnobs.arg.statics
            steps == fnobs.out
            sent == Deliveries(steps)
            by(callee) == sent = <<OutbStep(callee, fnobs.arg.port, fnobs.arg.value)>>
        IN
        /\ Len(sent) <= 1
        /\ Len(steps) = Len(sent) + 1
        /\ steps[Len(steps)] = OutbStep("check_for_host_error", 0, 0)
        /\ IF st.running_in_hyperlight THEN by("hloutb")
           ELSE IF st.outb_ptr_with_context
                THEN IF st.p_peb THEN by("outb_func_with_context") ELSE sent = <<>>
           ELSE IF st.outb_ptr THEN by("outb_func")
           ELSE sent = <<>>

\* outb ran outside a VM with OUTB_PTR_WITH_CONTEXT and OUTB_PTR both set and
\* no PEB: the write was dropped and check_for_host_error was still called.
C37_Witness ==
    /\ fnobs.fn = "outb"
    /\ ~fnobs.arg.statics.running_in_hyperlight
    /\ fnobs.arg.statics.outb_ptr_with_context
    /\ ~fnobs.arg.statics.p_peb
    /\ fnobs.arg.statics.outb_ptr
    /\ fnobs.out = <<OutbStep("check_for_host_error", 0, 0)>>

\* ---- the guest's accessors (ProtocolSpec)
\* C40: an accessor that returns Err for a discriminator mismatch has taken
\* the pending ReturnValue out of shared input: shared input no longer
\* holds it, and the accessor call that follows, of the right type or any
\* other, does not return Ok.
C40_FailedAccessorConsumes ==
    [][(/\ fnobs'.fn = "get_host_value_return_as"
        /\ Len(gtrace') = Len(gtrace) + 1)
       => /\ (fnobs'.out.status = "Err" /\ shared_input.frame = "ReturnValue")
               => /\ shared_input' # shared_input
                  /\ shared_input'.frame # "ReturnValue"
          /\ (Len(gtrace) = 1 /\ fnobs.out.status = "Err")
               => /\ fnobs'.out.status # "Ok"
                  /\ fnobs'.value # fnobs.value]_vars

\* The host returned an Int, the guest asked for it with the accessor for
\* void, which failed, and then with the accessor for int, which found
\* nothing to pop.
C40_Witness ==
    /\ Len(gtrace) = 2
    /\ gtrace[1].frame = ReturnValueFrame(RV("Int", 42))
    /\ gtrace[2].frame = EmptyFrame
    /\ fnobs.fn = "get_host_value_return_as"
    /\ fnobs.type = "int"
    /\ fnobs.out.status = "Panic"

\* ---- HyperlightFunction::call (FuncSpec)
\* C38: at no time are two threads inside the closure of one
\* HyperlightFunction, and every run of the closure sees the state the run
\* before it left: the count it writes is one more than the count it found.
C38_ClosureRunsExclusive ==
    /\ [](\A t1, t2 \in Callers : (InClosure(t1) /\ InClosure(t2)) => t1 = t2)
    /\ [](\A t \in Callers : InClosure(t) => hlfunc.holder = t)
    /\ [][\A t \in Callers :
            (hlfunc.pc[t] = "write" /\ hlfunc'.pc[t] = "return") => hlfunc'.captured = hlfunc.captured + 1]_vars

\* One thread is inside the closure, after an earlier run of it has
\* completed, while the other is in call() waiting for the lock.
C38_Witness ==
    /\ hlfunc.pc["t1"] = "write"
    /\ hlfunc.pc["t2"] = "locking"
    /\ hlfunc.holder = "t1"
    /\ hlfunc.captured = 1

\* C39: a closure that invokes call() on its own HyperlightFunction waits
\* for the lock its own thread holds: from then on the thread stays where it
\* is and keeps the lock, so the outer call() never returns, and no other
\* call() on the HyperlightFunction gets the lock either.
C39_NestedCallNeverReturns ==
    [][\A t \in Callers :
          hlfunc.pc[t] = "nested_locking"
          => /\ hlfunc'.pc[t] = "nested_locking"
             /\ hlfunc'.holder = t
             /\ hlfunc'.captured = hlfunc.captured
             /\ \A u \in Callers : ~(InClosure(u)' /\ u # t)]_vars

\* The closure has called its own HyperlightFunction while another thread
\* is waiting to call it too.
C39_Witness ==
    /\ hlfunc.pc["t2"] = "nested_locking"
    /\ hlfunc.holder = "t2"
    /\ hlfunc.pc["t1"] = "locking"
    /\ hlfunc.captured = 1

====
